---- MODULE Spec2Model ----
(***************************************************************************)
(* A model of simplendef (src/src/ndef.c, src/include/ndef.h): the NDEF    *)
(* record codec, the message codec and the record store.                   *)
(*                                                                         *)
(* Sizes.  size_t is 64 bits wide (an LP64 build).  TLC's integers are 32  *)
(* bits wide, so a size_t value is kept as four 16-bit limbs, most         *)
(* significant first, and its arithmetic is done limb by limb modulo 2^64. *)
(*                                                                         *)
(* Bytes.  A byte buffer is kept run-length encoded: a sequence of runs    *)
(* <<b, n>>, n > 0 copies of byte b, no two neighbouring runs with the     *)
(* same byte.  Every byte buffer has exactly one such encoding, so two     *)
(* buffers are equal iff their encodings are, and a payload of 2^31 bytes  *)
(* is one run.                                                             *)
(***************************************************************************)
EXTENDS Integers, Sequences, FiniteSets, TLC

(* ------------------------------ size_t ------------------------------- *)

Limb == 2^16

\* The size_t value of a small natural number (n < 2^31).
size_t(n) == <<0, 0, n \div Limb, n % Limb>>

\* The size_t value of four big-endian bytes, zero-extended.
SizeOfBytes(b3, b2, b1, b0) == <<0, 0, b3 * 256 + b2, b1 * 256 + b0>>

\* The low 32 bits of a size_t as four big-endian bytes.
ByteOfSize(s, k) ==
    CASE k = 3 -> s[3] \div 256
      [] k = 2 -> s[3] % 256
      [] k = 1 -> s[4] \div 256
      [] k = 0 -> s[4] % 256

\* a + b modulo 2^64.
SizeAdd(a, b) ==
    LET s4 == a[4] + b[4]
        s3 == a[3] + b[3] + s4 \div Limb
        s2 == a[2] + b[2] + s3 \div Limb
        s1 == a[1] + b[1] + s2 \div Limb
    IN  <<s1 % Limb, s2 % Limb, s3 % Limb, s4 % Limb>>

\* a - b modulo 2^64.
SizeSub(a, b) ==
    LET d4 == a[4] - b[4]
        c4 == IF d4 < 0 THEN 1 ELSE 0
        d3 == a[3] - b[3] - c4
        c3 == IF d3 < 0 THEN 1 ELSE 0
        d2 == a[2] - b[2] - c3
        c2 == IF d2 < 0 THEN 1 ELSE 0
        d1 == a[1] - b[1] - c2
    IN  <<d1 % Limb, d2 % Limb, d3 % Limb, d4 % Limb>>

\* a < b, unsigned.
SizeLt(a, b) ==
    \E i \in 1..4 : a[i] < b[i] /\ \A j \in 1..(i - 1) : a[j] = b[j]

SizeLe(a, b) == a = b \/ SizeLt(a, b)

\* The value as a TLC integer; defined for values below 2^31 only.
SizeNat(s) == s[3] * Limb + s[4]

\* PTRDIFF_MAX = 2^63 - 1: no allocator returns a block larger than this.
FitsPtrdiff(s) == s[1] < 2^15

(* ------------------------------- bytes ------------------------------- *)

NoBytes == << >>

\* x followed by y.
BCat(x, y) ==
    IF x = << >> THEN y
    ELSE IF y = << >> THEN x
    ELSE IF x[Len(x)][1] = y[1][1]
         THEN SubSeq(x, 1, Len(x) - 1)
              \o << <<y[1][1], SizeAdd(x[Len(x)][2], y[1][2])>> >>
              \o Tail(y)
         ELSE x \o y

\* n copies of byte b (n a size_t).
BRun(b, n) == IF n = size_t(0) THEN NoBytes ELSE << <<b, n>> >>

\* The buffer holding the bytes of the plain sequence s: one run for each
\* place of s where the byte differs from the one before it.
BytesOf(s) ==
    LET starts == {i \in 1..Len(s) : i = 1 \/ s[i] # s[i - 1]}
        st(k)  == CHOOSE i \in starts : Cardinality({j \in starts : j < i}) = k - 1
        en(k)  == IF k = Cardinality(starts) THEN Len(s) + 1 ELSE st(k + 1)
    IN  NoBytes \o [k \in 1..Cardinality(starts) |->
                        <<s[st(k)], size_t(en(k) - st(k))>>]

\* Number of bytes, as a size_t: those of the first half of the runs and
\* those of the second.
RECURSIVE BLen(_)
BLen(x) ==
    IF Len(x) = 0 THEN size_t(0)
    ELSE IF Len(x) = 1 THEN x[1][2]
    ELSE SizeAdd(BLen(SubSeq(x, 1, Len(x) \div 2)),
                 BLen(SubSeq(x, Len(x) \div 2 + 1, Len(x))))

\* The first n bytes of x (all of x when it is shorter).
RECURSIVE BTake(_, _)
BTake(x, n) ==
    IF x = << >> \/ n = size_t(0) THEN NoBytes
    ELSE IF SizeLe(x[1][2], n)
         THEN BCat(<<x[1]>>, BTake(Tail(x), SizeSub(n, x[1][2])))
         ELSE << <<x[1][1], n>> >>

\* x without its first n bytes (empty when it is shorter).
RECURSIVE BDrop(_, _)
BDrop(x, n) ==
    IF x = << >> \/ n = size_t(0) THEN x
    ELSE IF SizeLe(x[1][2], n)
         THEN BDrop(Tail(x), SizeSub(n, x[1][2]))
         ELSE << <<x[1][1], SizeSub(x[1][2], n)>> >> \o Tail(x)

\* The byte at offset off (off < BLen(x)).
BAt(x, off) == BDrop(x, off)[1][1]

\* The bytes memcpy(dst, x + off, n) copies.
BSlice(x, off, n) == BTake(BDrop(x, off), n)

(* ------------------------------- heap -------------------------------- *)

NULL == 0

\* The value of a field that was never assigned.
Indet == -1

\* A slot of a record array that was never written.
Garbage ==
    [raw_index |-> Indet, raw_len |-> Indet, tnf |-> Indet, type_len |-> Indet,
     payload_len |-> <<Indet, Indet, Indet, Indet>>, id_len |-> Indet,
     type |-> Indet, payload |-> Indet, id |-> Indet]

\* The allocator as seen by one call: heap is every block ever handed out
\* (a pointer is an index into it; blocks are never handed out twice), n
\* counts the allocation requests made so far, fail is the set of requests
\* that are refused, and ev collects the memory errors the call commits.
\* A block is [st, n, data]: live or freed, its size as a size_t (bytes of
\* a byte buffer, slots of a record array, bytes of a context), and the
\* cells it holds: the slots of a record array, the one context, or the
\* one byte string [bytes] of a buffer.
Machine(heap, fail) == [heap |-> heap, fail |-> fail, n |-> 0, ev |-> {}]

Event(m, e) == [m EXCEPT !.ev = @ \cup {e}]

\* malloc(size): the fresh block is uninitialised.
malloc(m, size) ==
    LET k == m.n + 1
    IN  IF k \in m.fail
        THEN [m |-> [m EXCEPT !.n = k], p |-> NULL]
        ELSE [m |-> [m EXCEPT !.n = k,
                              !.heap = Append(@, [st |-> "live", n |-> size,
                                                  data |-> << >>])],
              p |-> Len(m.heap) + 1]

\* malloc of a byte buffer: a request above PTRDIFF_MAX is always refused.
malloc_bytes(m, size) ==
    IF FitsPtrdiff(size) THEN malloc(m, size)
    ELSE [m |-> [m EXCEPT !.n = @ + 1], p |-> NULL]

\* free(p), p not NULL.  Freeing a block that is not live is a double free.
free(m, p) ==
    IF m.heap[p].st = "live"
    THEN [m EXCEPT !.heap[p].st = "freed"]
    ELSE Event(m, "double_free")

\* realloc(p, size): on success the contents move to a fresh block and the
\* old block is freed; on failure the old block is untouched.  Passing a
\* block that was freed already is a use after free.
realloc(m, p, size) ==
    LET k     == m.n + 1
        stale == p # NULL /\ m.heap[p].st # "live"
        m0    == IF stale THEN Event(m, "realloc_freed") ELSE m
        old   == IF p = NULL THEN << >> ELSE m.heap[p].data
        m1    == IF p # NULL /\ ~stale THEN free(m0, p) ELSE m0
    IN  IF k \in m.fail
        THEN [m |-> [m0 EXCEPT !.n = k], p |-> NULL]
        ELSE [m |-> [m1 EXCEPT !.n = k,
                               !.heap = Append(@, [st |-> "live", n |-> size,
                                                   data |-> old])],
              p |-> Len(m.heap) + 1]

\* memcpy(p, bytes, n) into a block just allocated.
memcpy(m, p, bytes) == [m EXCEPT !.heap[p].data = <<[bytes |-> bytes]>>]

\* memcpy(p, slots, n slots) into a record array just allocated.
memcpy_slots(m, p, slots) == [m EXCEPT !.heap[p].data = slots]

\* The bytes behind pointer p; a block that was freed still holds what it
\* held (reading it is a use after free).
Deref(heap, p) ==
    IF p = NULL \/ Len(heap[p].data) = 0 THEN NoBytes ELSE heap[p].data[1].bytes

\* arr[k] of the record array in block p.
ArrGet(m, p, k) ==
    IF p # NULL /\ k < Len(m.heap[p].data) THEN m.heap[p].data[k + 1] ELSE Garbage

\* The slots d holds, followed by slots never written up to n in all.
RECURSIVE Padded(_, _)
Padded(d, n) == IF Len(d) >= n THEN d ELSE Padded(Append(d, Garbage), n)

\* arr[k] = v.  A write at or past the block's size is a heap overflow; the
\* build that survives it keeps the value where it was written.
ArrSet(m, p, k, v) ==
    LET d  == m.heap[p].data
        m1 == [m EXCEPT !.heap[p].data =
                  IF k < Len(d) THEN [d EXCEPT ![k + 1] = v]
                  ELSE Append(Padded(d, k), v)]
    IN  IF k >= SizeNat(m.heap[p].n) THEN Event(m1, "oob_write") ELSE m1

(* ----------------------------- raw record ---------------------------- *)

NDEF_FLAG_MB == 128
NDEF_FLAG_ME == 64
NDEF_FLAG_CF == 32
NDEF_FLAG_SR == 16
NDEF_FLAG_IL == 8
NDEF_FLAG_TNF == 7

\* byte & mask, for a one-bit mask, as a bool.
Bit(byte, mask) == (byte \div mask) % 2 = 1

B2N(b) == IF b THEN 1 ELSE 0

\* The ndef_record part of an ndef_raw_record (its first union).
Abstract(r) ==
    [raw_index |-> r.raw_index, raw_len |-> r.raw_len, tnf |-> r.tnf,
     type_len |-> r.type_len, payload_len |-> r.payload_len, id_len |-> r.id_len,
     type |-> r.type, payload |-> r.payload, id |-> r.id]

\* An ndef_raw_record from its two unions.
RawOf(a, abs_index, mb, me, cf, sr, il) ==
    [abs_index |-> abs_index, flag_begin |-> mb, flag_end |-> me,
     flag_chunked |-> cf, flag_short_record |-> sr, flag_include_id_len |-> il,
     raw_index |-> a.raw_index, raw_len |-> a.raw_len, tnf |-> a.tnf,
     type_len |-> a.type_len, payload_len |-> a.payload_len, id_len |-> a.id_len,
     type |-> a.type, payload |-> a.payload, id |-> a.id]

\* The payload length read from a long record's four length bytes.  Each
\* byte is promoted to int before the shift, so `data[pos] << 24` with a
\* byte >= 0x80 overflows int (undefined): a build either keeps the value
\* (sx = FALSE) or, on LP64, sign-extends the negative int into the upper
\* 32 bits of size_t (sx = TRUE).
LongPayloadLen(b3, b2, b1, b0, sx) ==
    IF sx /\ b3 >= 128
    THEN <<Limb - 1, Limb - 1, b3 * 256 + b2, b1 * 256 + b0>>
    ELSE SizeOfBytes(b3, b2, b1, b0)

\* data[k]; a read at or past the end of the buffer yields the byte ub.ob.
Rd(data, k, ub) ==
    IF SizeLt(size_t(k), BLen(data)) THEN BAt(data, size_t(k)) ELSE ub.ob

\* The header fields ndef_raw_record_decode reads, once the minimum length
\* checks have let it read them.  ub is how the build resolves what the
\* language leaves undefined: ub.sx, whether a length byte shifted into the
\* sign bit of an int is sign-extended; ub.ob, the byte found past the end
\* of the buffer.
DecodeHeader(data, ub) ==
    LET f  == BAt(data, size_t(0))
        sr == Bit(f, NDEF_FLAG_SR)
        il == Bit(f, NDEF_FLAG_IL)
        p1 == IF sr THEN 3 ELSE 6
    IN  [flag_begin |-> Bit(f, NDEF_FLAG_MB), flag_end |-> Bit(f, NDEF_FLAG_ME),
         flag_chunked |-> Bit(f, NDEF_FLAG_CF), flag_short_record |-> sr,
         flag_include_id_len |-> il, tnf |-> f % (NDEF_FLAG_TNF + 1),
         type_len |-> Rd(data, 1, ub),
         payload_len |->
            IF sr THEN size_t(Rd(data, 2, ub))
            ELSE LongPayloadLen(Rd(data, 2, ub), Rd(data, 3, ub),
                                Rd(data, 4, ub), Rd(data, 5, ub), ub.sx),
         id_len |-> IF il THEN Rd(data, p1, ub) ELSE 0,
         pos |-> p1 + B2N(il)]

\* malloc(n) and memcpy(block, data + pos, n) of one field of the record;
\* a copy that runs past the end of the input is an out-of-bounds read.
CopyField(m, data, pos, n) ==
    LET a   == malloc_bytes(m, n)
        oob == SizeLt(BLen(data), SizeAdd(pos, n))
        m1  == memcpy(a.m, a.p, BSlice(data, pos, n))
    IN  IF a.p = NULL THEN a
        ELSE [m |-> IF oob THEN Event(m1, "oob_read") ELSE m1,
              p |-> a.p]

\* free(type), free(payload), free(id), each if not NULL.
ndef_record_destroy(m, r) ==
    LET m1 == IF r.type # NULL THEN free(m, r.type) ELSE m
        m2 == IF r.payload # NULL THEN free(m1, r.payload) ELSE m1
    IN  IF r.id # NULL THEN free(m2, r.id) ELSE m2

\* What a failed decode returns: false, *out and *len untouched.
DecodeFail(m, len) ==
    [m |-> m, ok |-> FALSE, written |-> FALSE, out |-> NULL, len |-> len]

\* The copies of the three fields, statement by statement.  f is
\* [m, pos, tmp, ok]: the memory, pos, the record being built, and whether
\* no return false was taken.
\* tmp.type = malloc(type_len); if (!tmp.type) return false; memcpy; pos +=
TypeCopied(f, a) ==
    IF a.p = NULL THEN [f EXCEPT !.m = a.m, !.ok = FALSE]
    ELSE [f EXCEPT !.m = a.m, !.tmp.type = a.p,
                   !.pos = SizeAdd(@, size_t(f.tmp.type_len))]
CopyType(f, data) ==
    IF f.tmp.type_len = 0 THEN f
    ELSE TypeCopied(f, CopyField(f.m, data, f.pos, size_t(f.tmp.type_len)))

\* tmp.payload = malloc(payload_len);
\* if (!tmp.payload) { if (tmp.type) free(tmp.type); return false; } ...
PayloadCopied(f, a) ==
    IF a.p = NULL
    THEN [f EXCEPT !.m = IF f.tmp.type # NULL THEN free(a.m, f.tmp.type) ELSE a.m,
                   !.ok = FALSE]
    ELSE [f EXCEPT !.m = a.m, !.tmp.payload = a.p,
                   !.pos = SizeAdd(@, f.tmp.payload_len)]
CopyPayload(f, data) ==
    IF ~f.ok \/ f.tmp.payload_len = size_t(0) THEN f
    ELSE PayloadCopied(f, CopyField(f.m, data, f.pos, f.tmp.payload_len))

\* tmp.id = malloc(id_len);
\* if (!tmp.id) { free type and payload if set; return false; } ...
IdCopied(f, a) ==
    IF a.p = NULL
    THEN [f EXCEPT !.m = ndef_record_destroy(a.m, f.tmp), !.ok = FALSE]
    ELSE [f EXCEPT !.m = a.m, !.tmp.id = a.p,
                   !.pos = SizeAdd(@, size_t(f.tmp.id_len))]
CopyId(f, data) ==
    IF ~f.ok \/ f.tmp.id_len = 0 THEN f
    ELSE IdCopied(f, CopyField(f.m, data, f.pos, size_t(f.tmp.id_len)))

\* *out = tmp; *len = pos; return true;  -- or the return false taken.
FieldsCopied(f, len) ==
    IF ~f.ok THEN DecodeFail(f.m, len)
    ELSE [m |-> f.m, ok |-> TRUE, written |-> TRUE, out |-> f.tmp, len |-> f.pos]

\* tmp once the header is read.  abs_index, raw_index and raw_len are
\* never assigned; a field of length 0 gets a NULL pointer.
HeaderRecord(h) ==
    [abs_index |-> Indet, flag_begin |-> h.flag_begin, flag_end |-> h.flag_end,
     flag_chunked |-> h.flag_chunked, flag_short_record |-> h.flag_short_record,
     flag_include_id_len |-> h.flag_include_id_len,
     raw_index |-> Indet, raw_len |-> Indet, tnf |-> h.tnf,
     type_len |-> h.type_len, payload_len |-> h.payload_len, id_len |-> h.id_len,
     type |-> NULL, payload |-> NULL, id |-> NULL]

\* The header h is read: the last length check, then the copies.  A header
\* longer than the buffer was read past the buffer's end.
HeaderRead(m, data, h) ==
    IF SizeLt(BLen(data),
              SizeAdd(SizeAdd(SizeAdd(size_t(h.pos), size_t(h.type_len)),
                              h.payload_len), size_t(h.id_len)))
    THEN DecodeFail(IF SizeLt(BLen(data), size_t(h.pos))
                    THEN Event(m, "oob_read") ELSE m, BLen(data))
    ELSE FieldsCopied(
             CopyId(CopyPayload(CopyType(
                 [m |-> IF SizeLt(BLen(data), size_t(h.pos))
                        THEN Event(m, "oob_read") ELSE m,
                  pos |-> size_t(h.pos), tmp |-> HeaderRecord(h), ok |-> TRUE],
                 data), data), data),
             BLen(data))

\* ndef_raw_record_decode(out, data, len) with *len = the length of data.
ndef_raw_record_decode(m, data, ub) ==
    IF SizeLt(BLen(data), size_t(3)) THEN DecodeFail(m, BLen(data))
    ELSE IF Bit(BAt(data, size_t(0)), NDEF_FLAG_SR)
            /\ SizeLt(BLen(data),
                      size_t(3 + B2N(Bit(BAt(data, size_t(0)), NDEF_FLAG_IL))))
    THEN DecodeFail(m, BLen(data))
    ELSE IF ~Bit(BAt(data, size_t(0)), NDEF_FLAG_SR)
            /\ SizeLt(BLen(data),
                      size_t(5 + B2N(Bit(BAt(data, size_t(0)), NDEF_FLAG_IL))))
    THEN DecodeFail(m, BLen(data))
    ELSE HeaderRead(m, data, DecodeHeader(data, ub))

(* ------------------------------ context ------------------------------ *)

\* 0xdeadbeef.
NDEF_MAGIC == SizeOfBytes(222, 173, 190, 239)

\* (size_t) -1.
SIZE_MAX == <<Limb - 1, Limb - 1, Limb - 1, Limb - 1>>

\* sizeof(ndef_ctx_s) on LP64: the magic (padded to 8) and six words.
sizeof_ndef_ctx_s == 56

\* sizeof(ndef_ctx): a pointer.
sizeof_ndef_ctx == 8

\* *ctx, and *ctx = c.
Ctx(m, h) == m.heap[h].data[1]
SetCtx(m, h, c) == [m EXCEPT !.heap[h].data = <<c>>]

\* What an operation hands back: the memory after it, its return value,
\* and whether it ended in abort() or a NULL dereference instead.
Ret(m, v) == [m |-> m, ret |-> v, abort |-> FALSE]
Abort(m) == [m |-> m, ret |-> NULL, abort |-> TRUE]

\* MAGIC_CHECK lets the call proceed.
MagicOk(m, h) == h # NULL /\ Ctx(m, h).magic = NDEF_MAGIC

ndef_init(m) ==
    LET a == malloc(m, size_t(sizeof_ndef_ctx_s))
    IN  IF a.p = NULL THEN Ret(a.m, NULL)
        ELSE Ret(SetCtx(a.m, a.p,
                        [magic |-> NDEF_MAGIC,
                         raw_records_len |-> 0, raw_records_cap |-> 0,
                         raw_records |-> NULL,
                         abs_records_len |-> 0, abs_records_cap |-> 0,
                         abs_records |-> NULL]), a.p)

ndef_raw_append(m, h, record) ==
    IF ~MagicOk(m, h) THEN Abort(m)
    ELSE
    LET c    == Ctx(m, h)
        grow == c.raw_records_len >= c.raw_records_cap
        cap  == IF grow
                THEN (IF c.raw_records_cap = 0 THEN 1 ELSE c.raw_records_cap) * 2
                ELSE c.raw_records_cap
        a    == IF grow THEN realloc(m, c.raw_records, size_t(cap))
                ELSE [m |-> m, p |-> c.raw_records]
        m1   == ArrSet(a.m, a.p, c.raw_records_len, record)
    IN  IF grow /\ a.p = NULL THEN Ret(a.m, FALSE)
        ELSE Ret(SetCtx(m1, h, [c EXCEPT !.raw_records = a.p,
                                         !.raw_records_cap = cap,
                                         !.raw_records_len = @ + 1]), TRUE)

\* while (new_len > cap) cap *= 2;
RECURSIVE Doubled(_, _)
Doubled(cap, new_len) == IF new_len > cap THEN Doubled(cap * 2, new_len) ELSE cap

\* for (ssize_t i = old_len - index - 1; i >= 0; i--)
\*     arr[old_len + i] = arr[index + i];
RECURSIVE Relocate(_, _, _, _, _)
Relocate(m, arr, old_len, index, i) ==
    IF i < 0 THEN m
    ELSE Relocate(ArrSet(m, arr, old_len + i, ArrGet(m, arr, index + i)),
                  arr, old_len, index, i - 1)

\* malloc has answered a: memcpy(a.p, src, len) when it gave a block.
CloneField(a, src, len) ==
    IF a.p = NULL THEN a
    ELSE [m |-> memcpy(a.m, a.p, BTake(Deref(a.m.heap, src), len)), p |-> a.p]

\* The clone of one record in the fill loop, statement by statement.  f is
\* [m, slot, done]: the memory, *ptr, and whether no break was taken.
\* ptr->type = malloc(type_len); if (!ptr->type) break; memcpy.
TypeCloned(f, a) ==
    [m |-> a.m, slot |-> [f.slot EXCEPT !.type = a.p], done |-> a.p # NULL]
CloneType(f, rec) ==
    IF rec.type_len = 0 THEN f
    ELSE TypeCloned(f, CloneField(malloc_bytes(f.m, size_t(rec.type_len)),
                                  rec.type, size_t(rec.type_len)))

\* ptr->payload = malloc(payload_len);
\* if (!ptr->payload) { if (ptr->type) free(ptr->type); break; } memcpy.
PayloadCloned(f, a) ==
    [m |-> IF a.p = NULL /\ f.slot.type # NULL THEN free(a.m, f.slot.type) ELSE a.m,
     slot |-> [f.slot EXCEPT !.payload = a.p], done |-> a.p # NULL]
ClonePayload(f, rec) ==
    IF ~f.done \/ rec.payload_len = size_t(0) THEN f
    ELSE PayloadCloned(f, CloneField(malloc_bytes(f.m, rec.payload_len),
                                     rec.payload, rec.payload_len))

\* ptr->id = malloc(id_len);
\* if (!ptr->id) { free type and payload if set; break; } memcpy.
IdCloned(f, a) ==
    [m |-> IF a.p # NULL THEN a.m
           ELSE ndef_record_destroy(a.m, [f.slot EXCEPT !.id = NULL]),
     slot |-> [f.slot EXCEPT !.id = a.p], done |-> a.p # NULL]
CloneId(f, rec) ==
    IF ~f.done \/ rec.id_len = 0 THEN f
    ELSE IdCloned(f, CloneField(malloc_bytes(f.m, size_t(rec.id_len)),
                                rec.id, size_t(rec.id_len)))

\* The slot as the clone left it, in the array.
SlotStored(f, arr, k) == [m |-> ArrSet(f.m, arr, k, f.slot), done |-> f.done]

\* The fill loop's body for records[i] in copy mode: the slot already
\* holds records[i]; clone its type, payload and id.
CloneInto(m, arr, k, rec) ==
    SlotStored(CloneId(ClonePayload(CloneType([m |-> m, slot |-> rec, done |-> TRUE],
                                              rec), rec), rec), arr, k)

\* for (i = 0; i < len; i++) { *ptr = records[i]; if (!is_move) clone }
\* The result's i is the loop counter when the loop is left.
RECURSIVE Fill(_, _, _, _, _, _, _)
RECURSIVE FillNext(_, _, _, _, _, _)
Fill(m, arr, index, records, len, is_move, i) ==
    IF i >= len THEN [m |-> m, i |-> i]
    ELSE IF is_move
    THEN Fill(ArrSet(m, arr, index + i, records[i + 1]), arr, index, records, len,
              is_move, i + 1)
    ELSE FillNext(CloneInto(ArrSet(m, arr, index + i, records[i + 1]), arr,
                            index + i, records[i + 1]),
                  arr, index, records, len, i)

\* The clone of records[i] is through: go round again, or break.
FillNext(c, arr, index, records, len, i) ==
    IF c.done THEN Fill(c.m, arr, index, records, len, FALSE, i + 1)
    ELSE [m |-> c.m, i |-> i]

\* for (size_t x = 0; x < i; x++) ndef_record_destroy(arr[index + i]);
RECURSIVE DestroyLoop(_, _, _, _, _)
DestroyLoop(m, arr, index, i, x) ==
    IF x >= i THEN m
    ELSE DestroyLoop(ndef_record_destroy(m, ArrGet(m, arr, index + i)),
                     arr, index, i, x + 1)

\* for (size_t i = 0; i < old_len - index; i++)
\*     arr[index + i] = arr[old_len + i];
RECURSIVE Unshift(_, _, _, _, _)
Unshift(m, arr, old_len, index, i) ==
    IF i >= old_len - index THEN m
    ELSE Unshift(ArrSet(m, arr, index + i, ArrGet(m, arr, old_len + i)),
                 arr, old_len, index, i + 1)

\* After the fill loop: the error handling, or the new length.  c is *ctx
\* as it was when the loop began.
Filled(f, h, c, index, len, is_move) ==
    IF ~is_move /\ f.i < len
    THEN Ret(Unshift(DestroyLoop(f.m, c.abs_records, index, f.i, 0),
                     c.abs_records, c.abs_records_len, index, 0), FALSE)
    ELSE Ret(SetCtx(f.m, h, [c EXCEPT !.abs_records_len = @ + len]), TRUE)

\* The relocation and the fill loop, the array being large enough.
Relocated(m, h, c, index, records, len, is_move) ==
    Filled(Fill(Relocate(m, c.abs_records, c.abs_records_len, index,
                         c.abs_records_len - index - 1),
                c.abs_records, index, records, len, is_move, 0),
           h, c, index, len, is_move)

\* A growth that records the new capacity before it looks at what realloc
\* answered.
GrownCapFirst(a, h, c, cap, index, records, len, is_move) ==
    IF a.p = NULL
    THEN Ret(SetCtx(a.m, h, [c EXCEPT !.abs_records_cap = cap]), FALSE)
    ELSE Relocated(SetCtx(a.m, h, [c EXCEPT !.abs_records = a.p,
                                            !.abs_records_cap = cap]),
                   h, [c EXCEPT !.abs_records = a.p, !.abs_records_cap = cap],
                   index, records, len, is_move)

\* realloc has answered a for cap slots: return false, or take the block.
Grown(a, h, c, cap, index, records, len, is_move) ==
    IF a.p = NULL THEN Ret(a.m, FALSE)
    ELSE Relocated(SetCtx(a.m, h, [c EXCEPT !.abs_records = a.p,
                                            !.abs_records_cap = cap]),
                   h, [c EXCEPT !.abs_records = a.p, !.abs_records_cap = cap],
                   index, records, len, is_move)

\* insert_n(ctx, index, records, len, is_move); index is a size_t.
insert_n(m, h, index0, records, len, is_move) ==
    IF ~MagicOk(m, h) THEN Abort(m)
    ELSE
    LET c     == Ctx(m, h)
        index == IF SizeLt(size_t(c.abs_records_len), index0)
                 THEN c.abs_records_len ELSE SizeNat(index0)
    IN  IF c.abs_records_len + len > c.abs_records_cap
        THEN Grown(realloc(m, c.abs_records,
                           size_t(Doubled(IF c.abs_records_cap = 0 THEN 1
                                          ELSE c.abs_records_cap,
                                          c.abs_records_len + len))),
                   h, c,
                   Doubled(IF c.abs_records_cap = 0 THEN 1
                           ELSE c.abs_records_cap, c.abs_records_len + len),
                   index, records, len, is_move)
        ELSE Relocated(m, h, c, index, records, len, is_move)

ndef_insert_n(m, h, index, records, len) ==
    insert_n(m, h, index, records, len, FALSE)

ndef_insert_n_mv(m, h, index, records, len) ==
    insert_n(m, h, index, records, len, TRUE)

ndef_append(m, h, record) == ndef_insert_n(m, h, SIZE_MAX, <<record>>, 1)

\* for (i < abs_records_len) { arr[i].raw_index = 0; arr[i].raw_len = 0; }
RECURSIVE Unlink(_, _, _, _)
Unlink(m, arr, n, i) ==
    IF i >= n THEN m
    ELSE Unlink(ArrSet(m, arr, i, [ArrGet(m, arr, i) EXCEPT !.raw_index = 0,
                                                            !.raw_len = 0]),
                arr, n, i + 1)

ndef_raw_clear(m, h) ==
    IF ~MagicOk(m, h) THEN Abort(m)
    ELSE
    LET c  == Ctx(m, h)
        m1 == IF c.raw_records # NULL THEN free(m, c.raw_records) ELSE m
        m2 == SetCtx(m1, h, [c EXCEPT !.raw_records_cap = 0, !.raw_records_len = 0])
    IN  Ret(Unlink(m2, c.abs_records, c.abs_records_len, 0), TRUE)

\* No MAGIC_CHECK: a NULL handle is dereferenced.
ndef_clear(m, h) ==
    IF h = NULL THEN Abort(Event(m, "null_deref"))
    ELSE
    LET c  == Ctx(m, h)
        m1 == IF c.raw_records # NULL THEN free(m, c.raw_records) ELSE m
        m2 == IF c.abs_records # NULL THEN free(m1, c.abs_records) ELSE m1
    IN  Ret(SetCtx(m2, h, [c EXCEPT !.raw_records_cap = 0, !.raw_records_len = 0,
                                    !.abs_records_cap = 0, !.abs_records_len = 0]),
            TRUE)

ndef_destroy(m, h) ==
    LET r == ndef_clear(m, h)
    IN  IF r.abort THEN r
        ELSE Ret(SetCtx(r.m, h, [Ctx(r.m, h) EXCEPT !.magic = size_t(0)]), TRUE)

\* The body is the MAGIC_CHECK alone.
ndef_splice_n(m, h, index, len) ==
    IF ~MagicOk(m, h) THEN Abort(m) ELSE Ret(m, TRUE)

ndef_splice(m, h, index) == ndef_splice_n(m, h, index, 1)

\* The first n slots of the array behind p, as memcpy of n slots reads them.
RECURSIVE Slots(_, _, _)
Slots(m, p, n) ==
    IF n = 0 THEN << >> ELSE Append(Slots(m, p, n - 1), ArrGet(m, p, n - 1))

\* out->X_records = malloc(cap slots); memcpy(out->X_records, src, cap
\* slots).  The malloc is not checked: memcpy to NULL of more than nothing
\* is a NULL dereference.  [m, p, abort].
ArrayCopied(a, src, cap) ==
    IF a.p # NULL
    THEN [m |-> memcpy_slots(a.m, a.p, Slots(a.m, src, cap)), p |-> a.p,
          abort |-> FALSE]
    ELSE [m |-> IF cap > 0 THEN Event(a.m, "null_deref") ELSE a.m, p |-> NULL,
          abort |-> cap > 0]
CloneArray(m, src, cap) == ArrayCopied(malloc(m, size_t(cap)), src, cap)

\* Both arrays are cloned: a and r; set the pointers in *out.
RawArrayCloned(r, a, out, c) ==
    IF r.abort THEN Abort(r.m)
    ELSE Ret(SetCtx(r.m, out, [c EXCEPT !.abs_records = a.p, !.raw_records = r.p]),
             out)
AbsArrayCloned(a, out, c) ==
    IF a.abort THEN Abort(a.m)
    ELSE RawArrayCloned(CloneArray(a.m, c.raw_records, c.raw_records_cap), a, out, c)

\* malloc(sizeof(ndef_ctx)) has answered o.  The block has the size of a
\* pointer and *out = *ctx writes a whole ndef_ctx_s into it.
CtxAllocated(o, c) ==
    IF o.p = NULL THEN Ret(o.m, NULL)
    ELSE AbsArrayCloned(
             CloneArray(IF sizeof_ndef_ctx < sizeof_ndef_ctx_s
                        THEN Event(SetCtx(o.m, o.p, c), "oob_write")
                        ELSE SetCtx(o.m, o.p, c),
                        c.abs_records, c.abs_records_cap),
             o.p, c)

ndef_clone(m, h) ==
    IF ~MagicOk(m, h) THEN Abort(m)
    ELSE CtxAllocated(malloc(m, size_t(sizeof_ndef_ctx)), Ctx(m, h))

(* --------------------------- message decode -------------------------- *)

\* while (*len > pos) { decode one record at data + pos; append it raw }
\* A NULL ctx (ndef_init failed) makes ndef_raw_append abort.
RECURSIVE DecodeLoop(_, _, _, _, _)
RECURSIVE RecordDecoded(_, _, _, _, _)
RECURSIVE RawAppended(_, _, _, _, _)
\* while (*len > pos) { decode one record; append it to the raw records }
DecodeLoop(m, h, data, ub, pos) ==
    IF ~SizeLt(pos, BLen(data))
    THEN [m |-> m, pos |-> pos, partial |-> FALSE, abort |-> FALSE]
    ELSE RecordDecoded(ndef_raw_record_decode(m, BDrop(data, pos), ub),
                       h, data, ub, pos)

\* if (!res) { partial = true; break; } pos += record_len;
RecordDecoded(d, h, data, ub, pos) ==
    IF ~d.ok THEN [m |-> d.m, pos |-> pos, partial |-> TRUE, abort |-> FALSE]
    ELSE RawAppended(ndef_raw_append(d.m, h, d.out), h, data, ub,
                     SizeAdd(pos, d.len))

\* res = ndef_raw_append(ctx, record); if (!res) { partial = true; break; }
RawAppended(a, h, data, ub, pos) ==
    IF a.abort THEN [m |-> a.m, pos |-> pos, partial |-> FALSE, abort |-> TRUE]
    ELSE IF ~a.ret THEN [m |-> a.m, pos |-> pos, partial |-> TRUE, abort |-> FALSE]
    ELSE DecodeLoop(a.m, h, data, ub, pos)

\* Raw record i with its links set.
Linked(raw, i) == [raw EXCEPT !.abs_index = i, !.raw_index = i, !.raw_len = 1]

\* for (i < raw_records_len) { link raw record i; ndef_append(its abstract) }
\* ndef_append's result is not looked at.
RECURSIVE Promote(_, _, _)
Promote(m, h, i) ==
    IF i >= Ctx(m, h).raw_records_len THEN m
    ELSE Promote(ndef_append(ArrSet(m, Ctx(m, h).raw_records, i,
                                    Linked(ArrGet(m, Ctx(m, h).raw_records, i), i)),
                             h, Abstract(Linked(ArrGet(m, Ctx(m, h).raw_records, i),
                                                i))).m,
                 h, i + 1)

\* The loop is left: a NULL ctx is dereferenced, else promote and return.
\* len is *len when the call returns (the function never assigns it); pos
\* is its local pos, the number of bytes decoded.
Looped(l, h, data) ==
    IF l.abort \/ h = NULL
    THEN [m |-> IF l.abort THEN l.m ELSE Event(l.m, "null_deref"),
          ret |-> NULL, abort |-> TRUE, len |-> BLen(data),
          pos |-> l.pos, partial |-> l.partial]
    ELSE [m |-> Promote(l.m, h, 0), ret |-> h, abort |-> FALSE,
          len |-> BLen(data), pos |-> l.pos, partial |-> l.partial]

\* ndef_init has answered c.
Inited(c, data, ub) ==
    Looped(DecodeLoop(c.m, c.ret, data, ub, size_t(0)), c.ret, data)

\* ndef_decode(data, len) with *len = the length of data.
ndef_decode(m, data, ub) ==
    IF data = NoBytes
    THEN [m |-> m, ret |-> NULL, abort |-> FALSE, len |-> BLen(data),
          pos |-> size_t(0), partial |-> FALSE]
    ELSE Inited(ndef_init(m), data, ub)

(* --------------------------- message encode -------------------------- *)

\* ndef_ostream_init(): { NULL, 0, 0 }.
ndef_ostream_init == [buf |-> NULL, buf_cap |-> size_t(0), buf_len |-> size_t(0)]

\* memcpy(buf + buf_len, bytes, n); buf_len += n.
OstreamPut(m, o, buf, cap, bytes) ==
    [m |-> IF buf = NULL THEN Event(m, "null_deref")
           ELSE memcpy(m, buf, BCat(BTake(Deref(m.heap, buf), o.buf_len), bytes)),
     o |-> [buf |-> buf, buf_cap |-> cap,
            buf_len |-> SizeAdd(o.buf_len, BLen(bytes))],
     res |-> TRUE]

ndef_ostream_append(m, o, byte) ==
    LET grow == ~SizeLt(o.buf_len, o.buf_cap)
        cap2 == SizeAdd(o.buf_cap, o.buf_cap)
        cap  == IF cap2 = size_t(0) THEN size_t(1) ELSE cap2
        a    == realloc(m, o.buf, cap)
    IN  IF ~grow THEN OstreamPut(m, o, o.buf, o.buf_cap, BRun(byte, size_t(1)))
        ELSE IF a.p = NULL THEN [m |-> a.m, o |-> o, res |-> FALSE]
        ELSE OstreamPut(a.m, o, a.p, cap, BRun(byte, size_t(1)))

\* while (cap < buf_len + len) cap *= 2;
RECURSIVE DoubledSize(_, _)
DoubledSize(cap, need) ==
    IF SizeLt(cap, need) THEN DoubledSize(SizeAdd(cap, cap), need) ELSE cap

ndef_ostream_append_n(m, o, bytes, len) ==
    LET cap0 == IF o.buf_cap = size_t(0) THEN size_t(1) ELSE o.buf_cap
        need == SizeAdd(o.buf_len, len)
        grow == SizeLt(cap0, need)
        cap  == DoubledSize(cap0, need)
        a    == realloc(m, o.buf, cap)
    IN  IF ~grow THEN OstreamPut(m, o, o.buf, o.buf_cap, BTake(bytes, len))
        ELSE IF a.p = NULL THEN [m |-> a.m, o |-> o, res |-> FALSE]
        ELSE OstreamPut(a.m, o, a.p, cap, BTake(bytes, len))

\* The appends of ndef_raw_record_encode, statement by statement.  e is
\* [m, o, res]: the memory, *out, and res; once res is false by a tested
\* append the function has returned false and the rest is skipped.
\* res = <append>; if (!res) { out->buf_len = len0; return false; }
Checked(e, len0) == IF e.res THEN e ELSE [e EXCEPT !.o.buf_len = len0]
PutByte(e, byte, len0) ==
    IF ~e.res THEN e ELSE Checked(ndef_ostream_append(e.m, e.o, byte), len0)
PutBytes(e, p, n, len0) ==
    IF ~e.res THEN e
    ELSE Checked(ndef_ostream_append_n(e.m, e.o, Deref(e.m.heap, p), n), len0)

\* res &= ndef_ostream_append(out, byte);
AndByte(e, byte) == [ndef_ostream_append(e.m, e.o, byte) EXCEPT !.res = @ /\ e.res]

\* The payload length.  Short: one append, its result assigned to res and
\* never tested.  Long: four appends, all made, results and-ed, then tested.
PutPayloadLen(e, data, len0) ==
    IF ~e.res THEN e
    ELSE IF data.flag_short_record
    THEN [ndef_ostream_append(e.m, e.o, ByteOfSize(data.payload_len, 0))
          EXCEPT !.res = TRUE]
    ELSE Checked(AndByte(AndByte(AndByte(AndByte(e, ByteOfSize(data.payload_len, 3)),
                                         ByteOfSize(data.payload_len, 2)),
                                 ByteOfSize(data.payload_len, 1)),
                         ByteOfSize(data.payload_len, 0)), len0)

PutIdLen(e, data, len0) ==
    IF data.flag_include_id_len THEN PutByte(e, data.id_len, len0) ELSE e
PutType(e, data, len0) ==
    IF data.type_len # 0
    THEN PutBytes(e, data.type, size_t(data.type_len), len0) ELSE e
PutPayload(e, data, len0) ==
    IF data.payload_len # size_t(0)
    THEN PutBytes(e, data.payload, data.payload_len, len0) ELSE e
PutId(e, data, len0) ==
    IF data.flag_include_id_len /\ data.id_len # 0
    THEN PutBytes(e, data.id, size_t(data.id_len), len0) ELSE e

\* The flags byte.
FlagsByte(data) ==
    NDEF_FLAG_MB * B2N(data.flag_begin) + NDEF_FLAG_ME * B2N(data.flag_end)
    + NDEF_FLAG_CF * B2N(data.flag_chunked) + NDEF_FLAG_SR * B2N(data.flag_short_record)
    + NDEF_FLAG_IL * B2N(data.flag_include_id_len)
    + (data.tnf % (NDEF_FLAG_TNF + 1))

\* ndef_raw_record_encode(out, data): [m, o, res], res the value returned.
ndef_raw_record_encode(m, o, data) ==
    PutId(PutPayload(PutType(PutIdLen(PutPayloadLen(
        PutByte(PutByte([m |-> m, o |-> o, res |-> TRUE], FlagsByte(data), o.buf_len),
                data.type_len, o.buf_len),
        data, o.buf_len), data, o.buf_len), data, o.buf_len), data, o.buf_len),
        data, o.buf_len)

\* The raw record of abstract record i of n, were flag_end computed as
\* i == abs_records_len.
EncodeRawEndPast(a, i, n) ==
    RawOf(a, i, i = 0, i = n, FALSE,
          a.payload_len[3] = 0 /\ a.payload_len[4] < 256,
          a.id_len # 0)

\* The raw record ndef_encode makes of abstract record i of n.  The mask
\* 0xffffff00 is an unsigned int: bits 8 to 31 of payload_len decide.
EncodeRaw(a, i, n) ==
    RawOf(a, i, i = 0, i = n - 1, FALSE,
          a.payload_len[3] = 0 /\ a.payload_len[4] < 256,
          a.id_len # 0)

\* for (i < abs_records_len) { make raw record i; encode it }
RECURSIVE EncodeLoop(_, _, _, _)
RECURSIVE Encoded(_, _, _)
EncodeLoop(m, o, h, i) ==
    IF i >= Ctx(m, h).abs_records_len THEN [m |-> m, o |-> o, res |-> TRUE]
    ELSE Encoded(ndef_raw_record_encode(
                     m, o, EncodeRaw(ArrGet(m, Ctx(m, h).abs_records, i), i,
                                     Ctx(m, h).abs_records_len)),
                 h, i)

\* if (!res) { ndef_ostream_destroy(out); return false; }
Encoded(e, h, i) == IF ~e.res THEN e ELSE EncodeLoop(e.m, e.o, h, i + 1)

\* The loop is left: destroy the stream and return false, or hand the
\* buffer out.  *out_data and *out_len are written on success only.
EncodeDone(e) ==
    IF ~e.res
    THEN [m |-> IF e.o.buf # NULL THEN free(e.m, e.o.buf) ELSE e.m,
          ret |-> FALSE, abort |-> FALSE, out_data |-> NULL,
          out_len |-> size_t(0), written |-> FALSE]
    ELSE [m |-> e.m, ret |-> TRUE, abort |-> FALSE, out_data |-> e.o.buf,
          out_len |-> e.o.buf_len, written |-> TRUE]

\* ndef_encode(ctx, out_data, out_len).
ndef_encode(m, h) ==
    IF ~MagicOk(m, h)
    THEN [m |-> m, ret |-> FALSE, abort |-> TRUE, out_data |-> NULL,
          out_len |-> size_t(0), written |-> FALSE]
    ELSE EncodeDone(EncodeLoop(ndef_raw_clear(m, h).m, ndef_ostream_init, h, 0))

(* ------------------------------- state ------------------------------- *)

VARIABLES
    heap,   \* every block malloc or realloc has handed out
    ctxs,   \* the message handles the caller holds, oldest first
    recs,   \* the records the caller holds and owns
    input,  \* the bytes the caller holds for ndef_decode
    op,     \* the call made last, with its arguments and results
    run     \* "ok"; "aborted" once the process has ended; "undefined" once
            \* it has survived a memory error

vars == <<heap, ctxs, recs, input, op, run>>

\* Bounds of the model.
MaxHeap == 6
MaxRecs == 2

\* The allocation requests a call may see refused, given the number of
\* requests it makes when none is refused: none, or any one of them.
FailSets(requests) == {{}} \cup {{k} : k \in 1..requests}

\* How a call ends.  abort() and a NULL dereference end the process.  After
\* a memory error the behaviour of the process is undefined: it ends there,
\* or it survives in the state the stores and frees that went through left,
\* and is followed no further.
Outcome(r) ==
    run' \in (IF r.abort THEN {"aborted"}
              ELSE IF r.m.ev # {} THEN {"undefined", "aborted"}
              ELSE {"ok"})

\* The caller's handles, as a set.
Handles == {ctxs[i] : i \in 1..Len(ctxs)}

(* What the caller can see of a record: its TNF and its three fields by    *)
(* value.  A slot never written shows as a record of TNF Indet.            *)
RecValue(hp, r) ==
    IF r.tnf = Indet
    THEN [tnf |-> Indet, type |-> NoBytes, payload |-> NoBytes, id |-> NoBytes]
    ELSE [tnf |-> r.tnf,
          type |-> BTake(Deref(hp, r.type), size_t(r.type_len)),
          payload |-> BTake(Deref(hp, r.payload), r.payload_len),
          id |-> BTake(Deref(hp, r.id), size_t(r.id_len))]

\* The values of the records in the sequence rs.
RecValues(hp, rs) == [k \in 1..Len(rs) |-> RecValue(hp, rs[k])]

\* The blocks of hp that are live.
Live(hp) == {b \in 1..Len(hp) : hp[b].st = "live"}

\* Abstract record k of message h, and the message's abstract records by
\* value, in order.
AbsRecord(hp, h, k) == ArrGet([heap |-> hp], hp[h].data[1].abs_records, k)
AbsValues(hp, h) ==
    [k \in 1..hp[h].data[1].abs_records_len |-> RecValue(hp, AbsRecord(hp, h, k - 1))]

RawRecord(hp, h, k) == ArrGet([heap |-> hp], hp[h].data[1].raw_records, k)

\* The buffers a record points to.
Buffers(r) == {r.type, r.payload, r.id} \ {NULL, Indet}

\* The buffers of a slot never written are unknown: none is counted.
\* The buffers the abstract and the raw records of message h point to.
AbsBuffers(hp, h) ==
    UNION {Buffers(AbsRecord(hp, h, k)) : k \in 0..(hp[h].data[1].abs_records_len - 1)}
RawBuffers(hp, h) ==
    UNION {Buffers(RawRecord(hp, h, k)) : k \in 0..(hp[h].data[1].raw_records_len - 1)}

\* What message h owns: its two arrays and the buffers of its records.
Owned(hp, h) ==
    ({hp[h].data[1].abs_records, hp[h].data[1].raw_records} \ {NULL})
        \cup AbsBuffers(hp, h) \cup RawBuffers(hp, h)

(* ------------------------------ the caller --------------------------- *)

\* The records a caller builds in the store's runs: [tnf, type, payload,
\* id], an absent field being empty.
StoreTemplates ==
    { [tnf |-> 1, type |-> NoBytes, payload |-> BytesOf(<<0, 120>>), id |-> NoBytes],
      [tnf |-> 2, type |-> NoBytes, payload |-> BytesOf(<<7>>),
       id |-> BytesOf(<<105>>)] }

\* malloc and fill one field; an empty field stays NULL.
NewField(m, bytes) ==
    LET a == malloc_bytes(m, BLen(bytes))
    IN  IF bytes = NoBytes THEN [m |-> m, p |-> NULL]
        ELSE [m |-> memcpy(a.m, a.p, bytes), p |-> a.p]

\* The caller builds an ndef_record holding the template's fields in buffers
\* of its own; raw_index and raw_len are zero (ndef_record_init).
NewRecordOf(m, t) ==
    LET ty == NewField(m, t.type)
        pl == NewField(ty.m, t.payload)
        id == NewField(pl.m, t.id)
    IN  [m |-> id.m,
         r |-> [raw_index |-> 0, raw_len |-> 0, tnf |-> t.tnf,
                type_len |-> SizeNat(BLen(t.type)), payload_len |-> BLen(t.payload),
                id_len |-> SizeNat(BLen(t.id)),
                type |-> ty.p, payload |-> pl.p, id |-> id.p]]

NewRecord(t) ==
    /\ run = "ok"
    /\ Len(recs) < MaxRecs
    /\ \E n \in {NewRecordOf(Machine(heap, {}), t)} :
           /\ Len(n.m.heap) <= MaxHeap
           /\ heap' = n.m.heap
           /\ recs' = Append(recs, n.r)
           /\ op' = [name |-> "new_record"]
    /\ UNCHANGED <<ctxs, input, run>>

\* The caller destroys the first record it holds and forgets it.
RecordDestroy ==
    /\ run = "ok"
    /\ recs # << >>
    /\ \E m \in {ndef_record_destroy(Machine(heap, {}), recs[1])} :
           /\ heap' = m.heap
           /\ op' = [name |-> "record_destroy", ev |-> m.ev]
           /\ Outcome([m |-> m, abort |-> FALSE])
    /\ recs' = Tail(recs)
    /\ UNCHANGED <<ctxs, input>>

(* ------------------------------ the store ---------------------------- *)

\* The indices an insert is tried at: 0, 1 and SIZE_MAX (append).
Indices == {size_t(0), size_t(1), SIZE_MAX}

\* The store of h is usable: its magic is right and its array of abstract
\* records is absent or live (ndef_clear leaves it freed and not NULL).
ArrayValid(hp, h) ==
    /\ MagicOk(Machine(hp, {}), h)
    /\ \/ hp[h].data[1].abs_records = NULL
       \/ hp[hp[h].data[1].abs_records].st = "live"

\* Does an insert of count records into h ask realloc for a larger array
\* and is refused?  realloc is the first request an insert makes.
GrowthFails(hp, h, count, fail) ==
    /\ MagicOk(Machine(hp, {}), h)
    /\ hp[h].data[1].abs_records_len + count > hp[h].data[1].abs_records_cap
    /\ fail = {1}

\* ndef_insert_n (copy) or ndef_insert_n_mv (move) of the first count
\* records the caller holds.  After a successful move the store owns them.
Insert(h, index, count, is_move) ==
    /\ run = "ok"
    /\ count <= Len(recs)
    /\ \E fail \in FailSets(insert_n(Machine(heap, {}), h, index,
                                      SubSeq(recs, 1, count), count, is_move).m.n) :
       \E r \in {insert_n(Machine(heap, fail), h, index, SubSeq(recs, 1, count),
                         count, is_move)} :
           /\ Len(r.m.heap) <= MaxHeap
           /\ heap' = r.m.heap
           /\ recs' = IF is_move /\ ~r.abort /\ r.ret
                      THEN SubSeq(recs, count + 1, Len(recs)) ELSE recs
           /\ op' = [name |-> "insert", h |-> h, index |-> index, count |-> count,
                     is_move |-> is_move, fail |-> fail, ok |-> r.ret,
                     ev |-> r.m.ev, abort |-> r.abort,
                     old |-> IF MagicOk(Machine(heap, {}), h)
                             THEN AbsValues(heap, h) ELSE << >>,
                     put |-> RecValues(heap, SubSeq(recs, 1, count)),
                     blocks |-> Len(heap), live |-> Live(heap),
                     valid |-> ArrayValid(heap, h),
                     arr |-> IF MagicOk(Machine(heap, {}), h)
                             THEN heap[h].data[1].abs_records ELSE NULL,
                     grow_failed |-> GrowthFails(heap, h, count, fail)]
           /\ Outcome(r)
    /\ UNCHANGED <<ctxs, input>>

Splice(h, index, len) ==
    /\ run = "ok"
    /\ \E r \in {ndef_splice_n(Machine(heap, {}), h, index, len)} :
           /\ heap' = r.m.heap
           /\ op' = [name |-> "splice", h |-> h, index |-> size_t(index),
                     len |-> size_t(len),
                     ev |-> r.m.ev, abort |-> r.abort,
                     old |-> IF MagicOk(Machine(heap, {}), h)
                             THEN AbsValues(heap, h) ELSE << >>]
           /\ Outcome(r)
    /\ UNCHANGED <<ctxs, recs, input>>

RawClear(h) ==
    /\ run = "ok"
    /\ \E r \in {ndef_raw_clear(Machine(heap, {}), h)} :
           /\ heap' = r.m.heap
           /\ op' = [name |-> "raw_clear", h |-> h, ev |-> r.m.ev,
                     abort |-> r.abort,
                     old |-> IF MagicOk(Machine(heap, {}), h)
                             THEN AbsValues(heap, h) ELSE << >>]
           /\ Outcome(r)
    /\ UNCHANGED <<ctxs, recs, input>>

Clear(h) ==
    /\ run = "ok"
    /\ \E r \in {ndef_clear(Machine(heap, {}), h)} :
           /\ heap' = r.m.heap
           /\ op' = [name |-> "clear", h |-> h, ev |-> r.m.ev, abort |-> r.abort,
                     owned |-> Owned(heap, h)]
           /\ Outcome(r)
    /\ UNCHANGED <<ctxs, recs, input>>

Destroy(h) ==
    /\ run = "ok"
    /\ \E r \in {ndef_destroy(Machine(heap, {}), h)} :
           /\ heap' = r.m.heap
           /\ op' = [name |-> "destroy", h |-> h, ev |-> r.m.ev, abort |-> r.abort,
                     owned |-> Owned(heap, h)]
           /\ Outcome(r)
    /\ UNCHANGED <<ctxs, recs, input>>

Clone(h) ==
    /\ run = "ok"
    /\ \E fail \in FailSets(ndef_clone(Machine(heap, {}), h).m.n) :
       \E r \in {ndef_clone(Machine(heap, fail), h)} :
           /\ Len(r.m.heap) <= MaxHeap
           /\ heap' = r.m.heap
           /\ ctxs' = IF r.abort \/ r.ret = NULL THEN ctxs ELSE Append(ctxs, r.ret)
           /\ op' = [name |-> "clone", h |-> h, fail |-> fail, ret |-> r.ret,
                     ev |-> r.m.ev, abort |-> r.abort]
           /\ Outcome(r)
    /\ UNCHANGED <<recs, input>>

\* After construction: one empty message from ndef_init, nothing else.
Init ==
    LET c == ndef_init(Machine(<< >>, {}))
    IN  /\ heap = c.m.heap
        /\ ctxs = <<c.ret>>
        /\ recs = << >>
        /\ input = NoBytes
        /\ op = [name |-> "init"]
        /\ run = "ok"

Next ==
    \/ \E t \in StoreTemplates : NewRecord(t)
    \/ RecordDestroy
    \/ \E h \in Handles, index \in Indices, count \in 0..MaxRecs, is_move \in BOOLEAN :
          Insert(h, index, count, is_move)
    \/ \E h \in Handles, index \in 0..1 : Splice(h, index, 1)
    \/ \E h \in Handles : RawClear(h)
    \/ \E h \in Handles : Clear(h)
    \/ \E h \in Handles : Destroy(h)
    \/ \E h \in Handles : Clone(h)

Spec == Init /\ [][Next]_vars
(* ------------------------------ the codec ---------------------------- *)

\* Bounds of the codec's runs: the records of a message, and the lengths a
\* caller cuts an encoding down to.
MaxMsg == 2
MaxCut == 12

\* The records of the messages that are encoded: a short record with a
\* type; a record with a 256-byte payload (long form) and an id; a record
\* with nothing in it; a record whose payload length has the top bit of
\* its 32 set.
CodecTemplates ==
    { [tnf |-> 1, type |-> BytesOf(<<85>>), payload |-> BytesOf(<<0, 120>>),
       id |-> NoBytes],
      [tnf |-> 2, type |-> NoBytes, payload |-> BRun(9, size_t(256)),
       id |-> BytesOf(<<105>>)],
      [tnf |-> 0, type |-> NoBytes, payload |-> NoBytes, id |-> NoBytes],
      [tnf |-> 1, type |-> BytesOf(<<84>>),
       payload |-> BRun(0, <<0, 0, Limb - 1, Limb - 1>>), id |-> NoBytes] }

\* The messages: every sequence of at most MaxMsg of these records.
Messages == UNION {[1..n -> CodecTemplates] : n \in 0..MaxMsg}

\* The caller builds the records of msg from k on and appends each with
\* ndef_append_mv.
RECURSIVE BuildMsg(_, _, _, _)
BuildMsg(m, h, msg, k) ==
    IF k > Len(msg) THEN m
    ELSE LET n == NewRecordOf(m, msg[k])
         IN  BuildMsg(ndef_insert_n_mv(n.m, h, SIZE_MAX, <<n.r>>, 1).m, h, msg, k + 1)

\* After construction: one message holding the records of msg.
CodecInit ==
    \E msg \in Messages :
        LET c == ndef_init(Machine(<< >>, {}))
        IN  /\ heap = BuildMsg(c.m, c.ret, msg, 1).heap
            /\ ctxs = <<c.ret>>
            /\ recs = << >>
            /\ input = NoBytes
            /\ op = [name |-> "init"]
            /\ run = "ok"

\* ndef_encode of the message; the caller keeps the bytes it is handed.
Encode ==
    /\ run = "ok"
    /\ op.name = "init"
    /\ \E fail \in FailSets(ndef_encode(Machine(heap, {}), ctxs[1]).m.n) :
       \E r \in {ndef_encode(Machine(heap, fail), ctxs[1])} :
           /\ heap' = r.m.heap
           /\ input' = IF r.ret THEN BTake(Deref(r.m.heap, r.out_data), r.out_len)
                        ELSE input
           /\ op' = [name |-> "encode", fail |-> fail, ok |-> r.ret,
                     written |-> r.written, ev |-> r.m.ev, abort |-> r.abort]
           /\ Outcome(r)
    /\ UNCHANGED <<ctxs, recs>>

\* The lengths an encoding of len bytes is cut down to: every length up to
\* MaxCut, and one byte short of the whole.
Cuts(len) ==
    {c \in {size_t(k) : k \in 0..MaxCut} \cup {SizeSub(len, size_t(1))} : SizeLt(c, len)}

\* The caller keeps the first k bytes of an encoding made with no
\* allocation refused.
Cut(k) ==
    /\ run = "ok"
    /\ op.name = "encode" /\ op.ok /\ op.fail = {}
    /\ k \in Cuts(BLen(input))
    /\ input' = BTake(input, k)
    /\ op' = [name |-> "cut", whole_len |-> BLen(input)]
    /\ UNCHANGED <<heap, ctxs, recs, run>>

\* The caller has bytes to decode: an encoding made with no allocation
\* refused, whole or cut.
HasInput == (op.name = "encode" /\ op.ok /\ op.fail = {}) \/ op.name = "cut"

\* How a build resolves the undefined: it sign-extends or not, and past
\* the end of a buffer lies a 0 or a 255.
Builds == [sx : BOOLEAN, ob : {0, 255}]

\* ndef_decode of the bytes the caller holds.  Builds that differ in the
\* byte past the buffer only are told apart when that byte is read.
Decode(ub) ==
    /\ run = "ok"
    /\ HasInput
    /\ \E fail \in FailSets(ndef_decode(Machine(heap, {}), input, ub).m.n) :
       \E r \in {ndef_decode(Machine(heap, fail), input, ub)} :
           /\ ub.ob = 0 \/ "oob_read" \in r.m.ev
           /\ heap' = r.m.heap
           /\ ctxs' = IF r.ret = NULL THEN ctxs ELSE Append(ctxs, r.ret)
           /\ op' = [name |-> "decode", ub |-> ub, fail |-> fail,
                     whole |-> op.name = "encode",
                     ret |-> r.ret, len |-> r.len, pos |-> r.pos,
                     partial |-> r.partial, ev |-> r.m.ev, abort |-> r.abort]
           /\ Outcome(r)
    /\ UNCHANGED <<recs, input>>

\* Whether ndef_raw_record_decode gets past its minimum length checks with
\* a record that is not short, and so reads four payload length bytes.
ReadsLong(data) ==
    /\ ~SizeLt(BLen(data), size_t(3))
    /\ ~Bit(BAt(data, size_t(0)), NDEF_FLAG_SR)
    /\ ~SizeLt(BLen(data),
               size_t(5 + B2N(Bit(BAt(data, size_t(0)), NDEF_FLAG_IL))))

\* ndef_raw_record_decode of the bytes the caller holds.  op.payload_len
\* is tmp.payload_len as the four length bytes of a long record set it.
RawDecode(ub) ==
    /\ run = "ok"
    /\ HasInput
    /\ \E fail \in FailSets(ndef_raw_record_decode(Machine(heap, {}), input, ub).m.n) :
       \E r \in {ndef_raw_record_decode(Machine(heap, fail), input, ub)} :
           /\ ub.ob = 0 \/ "oob_read" \in r.m.ev
           /\ heap' = r.m.heap
           /\ recs' = IF r.written THEN <<Abstract(r.out)>> ELSE recs
           /\ op' = [name |-> "raw_decode", ub |-> ub, fail |-> fail,
                     whole |-> op.name = "encode",
                     ok |-> r.ok, written |-> r.written, len |-> r.len,
                     long |-> ReadsLong(input),
                     payload_len |-> IF ReadsLong(input)
                                     THEN DecodeHeader(input, ub).payload_len
                                     ELSE size_t(0),
                     ev |-> r.m.ev, abort |-> FALSE]
           /\ Outcome([m |-> r.m, abort |-> FALSE])
    /\ UNCHANGED <<ctxs, input>>

\* ndef_insert(ctx, index, ndef_records(first)[0]) after a decode with no
\* allocation refused: the caller copies the first record of the message it
\* encoded into the message ndef_decode returned.  The call makes at most
\* four allocation requests: the array and the record's three fields.
InsertCopy(index) ==
    /\ run = "ok"
    /\ op.name = "decode" /\ op.fail = {} /\ op.ret # NULL
    /\ heap[ctxs[1]].data[1].abs_records_len >= 1
    /\ \E fail \in FailSets(4) :
       \E r \in {ndef_insert_n(Machine(heap, fail), op.ret, index,
                               <<AbsRecord(heap, ctxs[1], 0)>>, 1)} :
           /\ fail \subseteq 1..r.m.n
           /\ heap' = r.m.heap
           /\ op' = [name |-> "insert", h |-> op.ret, index |-> index,
                     count |-> 1, is_move |-> FALSE, fail |-> fail, ok |-> r.ret,
                     ev |-> r.m.ev, abort |-> r.abort]
           /\ Outcome(r)
    /\ UNCHANGED <<ctxs, recs, input>>

CodecNext ==
    \/ Encode
    \/ \E k \in {size_t(j) : j \in 0..MaxCut} \cup {SizeSub(BLen(input), size_t(1))} :
          Cut(k)
    \/ \E ub \in Builds : Decode(ub)
    \/ \E ub \in Builds : RawDecode(ub)
    \/ \E index \in Indices : InsertCopy(index)
    \/ \E h \in Handles : op.name \in {"decode", "raw_clear", "insert"} /\ RawClear(h)

SpecCodec == CodecInit /\ [][CodecNext]_vars

(* ------------------------------ URI records -------------------------- *)

\* A string is the buffer of its characters, the terminating zero left out.

\* NDEF_TNF_WELL_KNOWN, and the number of URI abbreviations.
NDEF_TNF_WELL_KNOWN == 1
NDEF_URI_ABBREVMAX == 36

\* The string values of the URI abbreviations, entry i at place i + 1.
ndef_uri_abbrev_table ==
    <<
       BytesOf(<<>>),  \* 0 ""
       BytesOf(<<104, 116, 116, 112, 58, 47, 47, 119, 119, 119, 46>>),  \* 1 "http://www."
       BytesOf(<<104, 116, 116, 112, 115, 58, 47, 47, 119, 119, 119, 46>>),  \* 2 "https://www."
       BytesOf(<<104, 116, 116, 112, 58, 47, 47>>),  \* 3 "http://"
       BytesOf(<<104, 116, 116, 112, 115, 58, 47, 47>>),  \* 4 "https://"
       BytesOf(<<116, 101, 108, 58>>),  \* 5 "tel:"
       BytesOf(<<109, 97, 105, 108, 116, 111, 58>>),  \* 6 "mailto:"
       BytesOf(<<102, 116, 112, 58, 47, 47, 97, 110, 111, 110, 121, 109, 111, 117, 115, 58, 97, 110, 111, 110, 121, 109, 111, 117, 115, 64>>),  \* 7 "ftp://anonymous:anonymous@"
       BytesOf(<<102, 116, 112, 58, 47, 47, 102, 116, 112, 46>>),  \* 8 "ftp://ftp."
       BytesOf(<<102, 116, 112, 115, 58, 47, 47>>),  \* 9 "ftps://"
       BytesOf(<<115, 102, 116, 112, 58, 47, 47>>),  \* 10 "sftp://"
       BytesOf(<<115, 109, 98, 58, 47, 47>>),  \* 11 "smb://"
       BytesOf(<<110, 102, 115, 58, 47, 47>>),  \* 12 "nfs://"
       BytesOf(<<102, 116, 112, 58, 47, 47>>),  \* 13 "ftp://"
       BytesOf(<<100, 97, 118, 58, 47, 47>>),  \* 14 "dav://"
       BytesOf(<<110, 101, 119, 115, 58>>),  \* 15 "news:"
       BytesOf(<<116, 101, 108, 110, 101, 116, 58, 47, 47>>),  \* 16 "telnet://"
       BytesOf(<<105, 109, 97, 112, 58>>),  \* 17 "imap:"
       BytesOf(<<114, 116, 115, 112, 58, 47, 47>>),  \* 18 "rtsp://"
       BytesOf(<<117, 114, 110, 58>>),  \* 19 "urn:"
       BytesOf(<<112, 111, 112, 58>>),  \* 20 "pop:"
       BytesOf(<<115, 105, 112, 58>>),  \* 21 "sip:"
       BytesOf(<<115, 105, 112, 115, 58>>),  \* 22 "sips:"
       BytesOf(<<116, 102, 116, 112, 58>>),  \* 23 "tftp:"
       BytesOf(<<98, 116, 115, 112, 112, 58, 47, 47>>),  \* 24 "btspp://"
       BytesOf(<<98, 116, 108, 50, 99, 97, 112, 58, 47, 47>>),  \* 25 "btl2cap://"
       BytesOf(<<98, 116, 103, 111, 101, 112, 58, 47, 47>>),  \* 26 "btgoep://"
       BytesOf(<<116, 99, 112, 111, 98, 101, 120, 58, 47, 47>>),  \* 27 "tcpobex://"
       BytesOf(<<105, 114, 100, 97, 111, 98, 101, 120, 58, 47, 47>>),  \* 28 "irdaobex://"
       BytesOf(<<102, 105, 108, 101, 58, 47, 47>>),  \* 29 "file://"
       BytesOf(<<117, 114, 110, 58, 101, 112, 99, 58, 105, 100, 58>>),  \* 30 "urn:epc:id:"
       BytesOf(<<117, 114, 110, 58, 101, 112, 99, 58, 116, 97, 103, 58>>),  \* 31 "urn:epc:tag:"
       BytesOf(<<117, 114, 110, 58, 101, 112, 99, 58, 112, 97, 116, 58>>),  \* 32 "urn:epc:pat:"
       BytesOf(<<117, 114, 110, 58, 101, 112, 99, 58, 114, 97, 119, 58>>),  \* 33 "urn:epc:raw:"
       BytesOf(<<117, 114, 110, 58, 101, 112, 99, 58>>),  \* 34 "urn:epc:"
       BytesOf(<<117, 114, 110, 58, 110, 102, 99, 58>>)  \* 35 "urn:nfc:"
    >>

\* (ndef_record) { 0 }.
ndef_record_init ==
    [raw_index |-> 0, raw_len |-> 0, tnf |-> 0, type_len |-> 0,
     payload_len |-> size_t(0), id_len |-> 0,
     type |-> NULL, payload |-> NULL, id |-> NULL]

\* The string a buffer starts with: its bytes before the first zero byte
\* (strnlen, strncat and strndup stop there).
RECURSIVE Str(_)
Str(x) == IF x = << >> \/ x[1][1] = 0 THEN NoBytes ELSE <<x[1]>> \o Str(Tail(x))

\* malloc(strlen(s) + 1) filled with the string s and its terminating zero;
\* NULL when the malloc is refused.
NewString(m, s) ==
    LET a == malloc_bytes(m, SizeAdd(BLen(s), size_t(1)))
    IN  IF a.p = NULL THEN [m |-> a.m, ret |-> NULL]
        ELSE [m |-> memcpy(a.m, a.p, BCat(s, BRun(0, size_t(1)))), ret |-> a.p]

\* ndef_record_is_uri(ctx).
ndef_record_is_uri(hp, r) ==
    /\ r.tnf = NDEF_TNF_WELL_KNOWN
    /\ r.type_len = 1
    /\ BAt(Deref(hp, r.type), size_t(0)) = 85
    /\ SizeLe(size_t(2), r.payload_len)

\* ndef_record_get_uri were its test `payload[0] >= NDEF_URI_ABBREVMAX - 1`.
GetUriBelowLast(m, r) ==
    IF ~ndef_record_is_uri(m.heap, r) THEN [m |-> m, ret |-> NULL]
    ELSE IF BAt(Deref(m.heap, r.payload), size_t(0)) >= NDEF_URI_ABBREVMAX - 1
    THEN [m |-> m, ret |-> NULL]
    ELSE NewString(m,
             BCat(ndef_uri_abbrev_table[BAt(Deref(m.heap, r.payload), size_t(0)) + 1],
                  Str(BSlice(Deref(m.heap, r.payload), size_t(1),
                             SizeSub(r.payload_len, size_t(1))))))

\* ndef_record_get_uri(ctx): the string in a block of its own, or NULL.
ndef_record_get_uri(m, r) ==
    IF ~ndef_record_is_uri(m.heap, r) THEN [m |-> m, ret |-> NULL]
    ELSE IF BAt(Deref(m.heap, r.payload), size_t(0)) # 0
    THEN IF BAt(Deref(m.heap, r.payload), size_t(0)) >= NDEF_URI_ABBREVMAX
         THEN [m |-> m, ret |-> NULL]
         ELSE NewString(m,
                  BCat(ndef_uri_abbrev_table[BAt(Deref(m.heap, r.payload),
                                                 size_t(0)) + 1],
                       Str(BSlice(Deref(m.heap, r.payload), size_t(1),
                                  SizeSub(r.payload_len, size_t(1))))))
    ELSE NewString(m, Str(BSlice(Deref(m.heap, r.payload), size_t(1),
                                 SizeSub(r.payload_len, size_t(1)))))

\* new_uri(abbrev, uri): the payload is the abbreviation byte, the string
\* and its terminating zero, payload_len leaving the zero out.
new_uri(m, abbrev, uri) ==
    LET mem == malloc_bytes(m, SizeAdd(BLen(uri), size_t(2)))
        m1  == memcpy(mem.m, mem.p,
                      BCat(BCat(BRun(abbrev, size_t(1)), uri), BRun(0, size_t(1))))
        ty  == malloc_bytes(m1, size_t(1))
    IN  IF mem.p = NULL THEN [m |-> mem.m, out |-> ndef_record_init]
        ELSE IF ty.p = NULL
        THEN [m |-> free(ty.m, mem.p), out |-> ndef_record_init]
        ELSE [m |-> memcpy(ty.m, ty.p, BRun(85, size_t(1))),
              out |-> [raw_index |-> 0, raw_len |-> 0,
                       tnf |-> NDEF_TNF_WELL_KNOWN, type_len |-> 1,
                       payload_len |-> SizeAdd(BLen(uri), size_t(1)), id_len |-> 0,
                       type |-> ty.p, payload |-> mem.p, id |-> NULL]]

\* The iterations lo .. hi - 1 of
\*     for (i = 1; i < NDEF_URI_ABBREVMAX; i++)
\*         if (len > match_len && !strncmp(table[i], uri, len))
\*             { match = i; match_len = len; }
\* from the state st = [match, match_len]: those of lo .. mid - 1, then
\* those of mid .. hi - 1.  strncmp over the len characters of the entry
\* is 0 when the uri starts with them.  With strict false the body is
\* without its `len > match_len`.
RECURSIVE MatchFold(_, _, _, _, _)
MatchFold(uri, lo, hi, st, strict) ==
    IF lo >= hi THEN st
    ELSE IF hi = lo + 1
    THEN IF (~strict \/ SizeLt(st.match_len, BLen(ndef_uri_abbrev_table[lo + 1])))
            /\ BTake(uri, BLen(ndef_uri_abbrev_table[lo + 1]))
                 = ndef_uri_abbrev_table[lo + 1]
         THEN [match |-> lo, match_len |-> BLen(ndef_uri_abbrev_table[lo + 1])]
         ELSE st
    ELSE LET half == MatchFold(uri, lo, (lo + hi) \div 2, st, strict)
         IN  IF half = st THEN MatchFold(uri, (lo + hi) \div 2, hi, st, strict)
             ELSE MatchFold(uri, (lo + hi) \div 2, hi, half, strict)

\* The loop without its `len > match_len`: the last entry that matches wins.
MatchLoopLast(uri, i, match, match_len) ==
    MatchFold(uri, i, NDEF_URI_ABBREVMAX,
              [match |-> match, match_len |-> match_len], FALSE)

\* The loop from i on, match and match_len being what they are then.
MatchLoop(uri, i, match, match_len) ==
    MatchFold(uri, i, NDEF_URI_ABBREVMAX,
              [match |-> match, match_len |-> match_len], TRUE)

\* ndef_record_new_uri(uri): new_uri(match, uri + match_len).
ndef_record_new_uri(m, uri) ==
    new_uri(m, MatchLoop(uri, 1, 0, size_t(0)).match,
            BDrop(uri, MatchLoop(uri, 1, 0, size_t(0)).match_len))

\* ndef_record_new_raw_uri(uri).
ndef_record_new_raw_uri(m, uri) == new_uri(m, 0, uri)

(* ------------------------------ text records ------------------------- *)

\* ndef_record_is_text(ctx).
ndef_record_is_text(hp, r) ==
    /\ r.tnf = NDEF_TNF_WELL_KNOWN
    /\ r.type_len = 1
    /\ BAt(Deref(hp, r.type), size_t(0)) = 84
    /\ SizeLe(size_t(4), r.payload_len)

\* ndef_record_get_text(ctx): the ndef_text { lang, text }, each string in
\* a block of its own, or { NULL, NULL }.  text_len is the local of that
\* name, a size_t: payload_len - lang_len - 1 wraps around when lang_len
\* is not below payload_len, and then the second memcpy reads past the
\* payload and writes past the block of text_len + 1 bytes.
ndef_record_get_text(m, r) ==
    LET pl       == Deref(m.heap, r.payload)
        lang_len == BAt(pl, size_t(0)) % 64
        text_len == SizeSub(SizeSub(r.payload_len, size_t(lang_len)), size_t(1))
        lang     == malloc_bytes(m, size_t(lang_len + 1))
        text     == malloc_bytes(lang.m, SizeAdd(text_len, size_t(1)))
        m1       == memcpy(text.m, lang.p,
                           BCat(BSlice(pl, size_t(1), size_t(lang_len)),
                                BRun(0, size_t(1))))
        m2       == memcpy(m1, text.p,
                           BCat(BSlice(pl, size_t(1 + lang_len), text_len),
                                BRun(0, size_t(1))))
        m3       == IF SizeLt(BLen(pl), size_t(1 + lang_len))
                    THEN Event(m2, "oob_read") ELSE m2
        m4       == IF SizeLt(r.payload_len, size_t(lang_len + 1))
                    THEN Event(Event(m3, "oob_read"), "oob_write") ELSE m3
    IN  IF ~ndef_record_is_text(m.heap, r)
        THEN [m |-> m, lang |-> NULL, text |-> NULL, text_len |-> size_t(0)]
        ELSE IF lang.p = NULL
        THEN [m |-> lang.m, lang |-> NULL, text |-> NULL, text_len |-> text_len]
        ELSE IF text.p = NULL
        THEN [m |-> free(text.m, lang.p), lang |-> NULL, text |-> NULL,
              text_len |-> text_len]
        ELSE [m |-> m4, lang |-> lang.p, text |-> text.p, text_len |-> text_len]

\* ndef_record_new_text(ctx), ctx.lang and ctx.text two strings.
ndef_record_new_text(m, lang, text) ==
    LET mem == malloc_bytes(m, SizeAdd(SizeAdd(size_t(1), BLen(lang)), BLen(text)))
        m1  == memcpy(mem.m, mem.p,
                      BCat(BCat(BRun(SizeNat(BLen(lang)) % 256, size_t(1)), lang),
                           text))
        ty  == malloc_bytes(m1, size_t(1))
    IN  IF SizeLt(BLen(lang), size_t(2)) \/ BLen(text) # size_t(0)
        THEN [m |-> m, out |-> ndef_record_init]
        ELSE IF mem.p = NULL THEN [m |-> mem.m, out |-> ndef_record_init]
        ELSE IF ty.p = NULL
        THEN [m |-> free(ty.m, mem.p), out |-> ndef_record_init]
        ELSE [m |-> memcpy(ty.m, ty.p, BRun(85, size_t(1))),
              out |-> [raw_index |-> 0, raw_len |-> 0,
                       tnf |-> NDEF_TNF_WELL_KNOWN, type_len |-> 1,
                       payload_len |-> SizeAdd(SizeAdd(size_t(1), BLen(lang)),
                                               BLen(text)),
                       id_len |-> 0,
                       type |-> ty.p, payload |-> mem.p, id |-> NULL]]

(* --------------------------- smart poster records -------------------- *)

\* ndef_record_is_smartposter(ctx).
ndef_record_is_smartposter(hp, r) ==
    /\ r.tnf = NDEF_TNF_WELL_KNOWN
    /\ r.type_len = 2
    /\ r.payload_len # size_t(0)
    /\ BAt(Deref(hp, r.type), size_t(0)) = 83
    /\ BAt(Deref(hp, r.type), size_t(1)) = 112

\* The one element of a set of one element: in The({F(x) : x \in {e}}) the
\* value of e is taken once and F is applied to it.
The(S) == CHOOSE x \in S : TRUE

\* for (i < ndef_records_len(ndef)) { out.uri = get_uri(records[i]);
\*                                    if (out.uri) break; }
\* ndef_records_len aborts on a NULL handle.
RECURSIVE UriLoop(_, _, _)
UriLoop(m, h, i) ==
    LET Got(g) == IF g.ret # NULL THEN Ret(g.m, g.ret) ELSE UriLoop(g.m, h, i + 1)
    IN  IF ~MagicOk(m, h) THEN Abort(m)
        ELSE IF i >= Ctx(m, h).abs_records_len THEN Ret(m, NULL)
        ELSE The({Got(g) : g \in {ndef_record_get_uri(
                                      m, ArrGet(m, Ctx(m, h).abs_records, i))}})

\* for (i < ndef_records_len(ndef)) { out.text = get_text(records[i]);
\*                                    if (out.text.lang) break; }
RECURSIVE TextLoop(_, _, _)
TextLoop(m, h, i) ==
    LET Got(g) == IF g.lang # NULL THEN [m |-> g.m, lang |-> g.lang, text |-> g.text]
                  ELSE TextLoop(g.m, h, i + 1)
    IN  IF i >= Ctx(m, h).abs_records_len THEN [m |-> m, lang |-> NULL, text |-> NULL]
        ELSE The({Got(g) : g \in {ndef_record_get_text(
                                      m, ArrGet(m, Ctx(m, h).abs_records, i))}})

\* ndef_record_get_smartposter(ctx): { ndef, uri, text }.  The record is
\* not tested with ndef_record_is_smartposter; its payload is decoded as it
\* is.
ndef_record_get_smartposter(m, r, ub) ==
    LET Texts(d, u, t) ==
            [m |-> t.m, ndef |-> d.ret, uri |-> u.ret,
             lang |-> t.lang, text |-> t.text, abort |-> FALSE]
        Uris(d, u) ==
            IF u.abort
            THEN [m |-> u.m, ndef |-> d.ret, uri |-> NULL,
                  lang |-> NULL, text |-> NULL, abort |-> TRUE]
            ELSE The({Texts(d, u, t) : t \in {TextLoop(u.m, d.ret, 0)}})
        Decoded(d) ==
            IF d.abort
            THEN [m |-> d.m, ndef |-> d.ret, uri |-> NULL,
                  lang |-> NULL, text |-> NULL, abort |-> TRUE]
            ELSE The({Uris(d, u) : u \in {UriLoop(d.m, d.ret, 0)}})
    IN  The({Decoded(d) : d \in {ndef_decode(
                 m, BTake(Deref(m.heap, r.payload), r.payload_len), ub)}})

\* ndef_record_new_smartposter(ctx), ctx being [ndef, has_uri, uri,
\* has_text, lang, text].  No result of ndef_init, ndef_clone,
\* ndef_append_mv or ndef_encode is looked at: a NULL message aborts in
\* ndef_records_len, and after an ndef_encode that failed data and len are
\* read uninitialised.  The steps, last first:
\*   Typed     type = malloc(2), the record or the all-zero record;
\*   Destroyed ndef_destroy(ctx.ndef);
\*   Serialised ndef_encode(ctx.ndef, &data, &len);
\*   WithText  the text record appended if there is none and one is asked;
\*   WithUri   the URI record appended likewise;
\*   Cloned    the has_uri and has_text loops over the message.
ndef_record_new_smartposter(m, ctx) ==
    LET Typed(e, ty) ==
            IF ty.p = NULL
            THEN [m |-> IF e.written /\ e.out_data # NULL
                        THEN free(ty.m, e.out_data) ELSE ty.m,
                  out |-> ndef_record_init, abort |-> FALSE]
            ELSE [m |-> memcpy(ty.m, ty.p, BytesOf(<<83, 112>>)),
                  out |-> [raw_index |-> 0, raw_len |-> 0,
                           tnf |-> NDEF_TNF_WELL_KNOWN, type_len |-> 1,
                           payload_len |-> IF e.written THEN e.out_len
                                           ELSE Garbage.payload_len,
                           id_len |-> 0, type |-> ty.p,
                           payload |-> IF e.written THEN e.out_data ELSE Indet,
                           id |-> NULL],
                  abort |-> FALSE]
        Destroyed(e, d) ==
            IF d.abort THEN [m |-> d.m, out |-> ndef_record_init, abort |-> TRUE]
            ELSE The({Typed(e, ty) : ty \in {malloc_bytes(d.m, size_t(2))}})
        Serialised(h, e) ==
            IF e.abort THEN [m |-> e.m, out |-> ndef_record_init, abort |-> TRUE]
            ELSE The({Destroyed(e, d) :
                      d \in {ndef_destroy(IF e.written THEN e.m
                                          ELSE Event(e.m, "uninit_read"), h)}})
        WithText(h, t) ==
            IF t.abort THEN [m |-> t.m, out |-> ndef_record_init, abort |-> TRUE]
            ELSE The({Serialised(h, e) : e \in {ndef_encode(t.m, h)}})
        Appended(h, new) ==
            The({ndef_insert_n_mv(n.m, h, SIZE_MAX, <<n.out>>, 1) : n \in {new}})
        WithUri(h, ht, u) ==
            IF u.abort THEN [m |-> u.m, out |-> ndef_record_init, abort |-> TRUE]
            ELSE The({WithText(h, t) :
                      t \in {IF ~ht /\ ctx.has_text
                             THEN Appended(h, ndef_record_new_text(
                                                  u.m, ctx.lang, ctx.text))
                             ELSE Ret(u.m, TRUE)}})
        Has(c, is(_, _)) ==
            \E i \in 0..(Ctx(c.m, c.ret).abs_records_len - 1) :
                is(c.m.heap, ArrGet(c.m, Ctx(c.m, c.ret).abs_records, i))
        Cloned(c) ==
            IF c.abort \/ ~MagicOk(c.m, c.ret)
            THEN [m |-> c.m, out |-> ndef_record_init, abort |-> TRUE]
            ELSE The({WithUri(c.ret, ht, u) :
                      ht \in {Has(c, ndef_record_is_text)},
                      u \in {IF ~Has(c, ndef_record_is_uri) /\ ctx.has_uri
                             THEN Appended(c.ret,
                                           ndef_record_new_uri(c.m, ctx.uri))
                             ELSE Ret(c.m, TRUE)}})
    IN  The({Cloned(c) : c \in {IF ctx.ndef = NULL THEN ndef_init(m)
                                 ELSE ndef_clone(m, ctx.ndef)}})

(* --------------------------- the typed records ----------------------- *)

\* The records a caller holds that no constructor of the library made (a
\* decoded message's, say): type "U" with the abbreviation bytes 0, 1, 34,
\* 35, 36 and 255, with a zero byte inside the payload, with a payload of
\* one byte; type "T" with a language of 2 before a text, with the UTF-16
\* bit set, with a language length of payload_len - 1, of payload_len, of
\* 63, and with a payload of three bytes.
RtdTemplates ==
    { [tnf |-> 1, type |-> BytesOf(<<85>>), payload |-> BytesOf(p), id |-> NoBytes] :
        p \in { <<0, 120>>, <<1, 120>>, <<34, 120>>, <<35, 120>>, <<36, 120>>,
                <<255, 120>>, <<1, 97, 0, 98>>, <<3>> } }
    \cup
    { [tnf |-> 1, type |-> BytesOf(<<84>>), payload |-> BytesOf(p), id |-> NoBytes] :
        p \in { <<2, 101, 110, 104, 105>>, <<130, 101, 110, 104>>,
                <<3, 97, 98, 99>>, <<4, 97, 98, 99>>, <<63, 97, 98, 99>>,
                <<2, 101, 110>> } }

\* The strings a caller hands to the constructors: the uris "", "x",
\* "http://", "http://x", "http://www.x", "https://www.a", "urn:x",
\* "urn:epc:x", "urn:epc:id:x" and "urn:nfc:x"; the languages "", "e",
\* "en", one of 63 and one of 64 characters; the texts "" and "hi"; the
\* uri "https://x" given to a smart poster.
RtdStrings ==
    [uris  |-> { BytesOf(u) : u \in
                   { << >>, <<120>>,
                     <<104, 116, 116, 112, 58, 47, 47>>,
                     <<104, 116, 116, 112, 58, 47, 47, 120>>,
                     <<104, 116, 116, 112, 58, 47, 47, 119, 119, 119, 46, 120>>,
                     <<104, 116, 116, 112, 115, 58, 47, 47, 119, 119, 119, 46, 97>>,
                     <<117, 114, 110, 58, 120>>,
                     <<117, 114, 110, 58, 101, 112, 99, 58, 120>>,
                     <<117, 114, 110, 58, 101, 112, 99, 58, 105, 100, 58, 120>>,
                     <<117, 114, 110, 58, 110, 102, 99, 58, 120>> } },
     langs |-> { NoBytes, BytesOf(<<101>>), BytesOf(<<101, 110>>),
                 BRun(97, size_t(63)), BRun(97, size_t(64)) },
     texts |-> { NoBytes, BytesOf(<<104, 105>>) },
     poster |-> BytesOf(<<104, 116, 116, 112, 115, 58, 47, 47, 120>>)]

\* After construction: the caller holds one record of its own making, or
\* none yet.
RtdInit ==
    /\ \E n \in {NewRecordOf(Machine(<< >>, {}), t) : t \in RtdTemplates} :
           \/ heap = n.m.heap /\ recs = <<n.r>>
           \/ heap = << >> /\ recs = << >>
    /\ ctxs = << >>
    /\ input = NoBytes
    /\ op = [name |-> "init"]
    /\ run = "ok"

\* ndef_record_new_uri(uri) or ndef_record_new_raw_uri(uri); the caller
\* keeps the record and the string.
NewUri(uri, abbreviate) ==
    /\ run = "ok"
    /\ recs = << >>
    /\ \E fail \in FailSets(2) :
       \E r \in { IF abbreviate
                  THEN ndef_record_new_uri(Machine(heap, fail), uri)
                  ELSE ndef_record_new_raw_uri(Machine(heap, fail), uri) } :
           /\ fail \subseteq 1..r.m.n
           /\ heap' = r.m.heap
           /\ recs' = <<r.out>>
           /\ op' = [name |-> IF abbreviate THEN "new_uri" ELSE "new_raw_uri",
                     fail |-> fail, ev |-> r.m.ev, abort |-> FALSE]
           /\ Outcome([m |-> r.m, abort |-> FALSE])
    /\ input' = uri
    /\ UNCHANGED ctxs

\* ndef_record_get_uri of the record the caller holds.  op.from is the
\* call that made the record.
GetUri ==
    /\ run = "ok"
    /\ recs # << >>
    /\ op.name \in {"init", "new_uri", "new_raw_uri", "new_text"}
    /\ \E fail \in FailSets(1) :
       \E r \in {ndef_record_get_uri(Machine(heap, fail), recs[1])} :
           /\ fail \subseteq 1..r.m.n
           /\ heap' = r.m.heap
           /\ op' = [name |-> "get_uri", from |-> op.name, ret |-> r.ret,
                     fail |-> fail, ev |-> r.m.ev, abort |-> FALSE]
           /\ Outcome([m |-> r.m, abort |-> FALSE])
    /\ UNCHANGED <<ctxs, recs, input>>

\* ndef_record_new_text({ lang, text }); the caller keeps the record and,
\* in op.given, the two strings.
NewText(lang, text) ==
    /\ run = "ok"
    /\ recs = << >>
    /\ \E fail \in FailSets(2) :
       \E r \in {ndef_record_new_text(Machine(heap, fail), lang, text)} :
           /\ fail \subseteq 1..r.m.n
           /\ heap' = r.m.heap
           /\ recs' = <<r.out>>
           /\ op' = [name |-> "new_text", given |-> <<lang, text>>,
                     fail |-> fail, ev |-> r.m.ev, abort |-> FALSE]
           /\ Outcome([m |-> r.m, abort |-> FALSE])
    /\ UNCHANGED <<ctxs, input>>

\* ndef_record_get_text of the record the caller holds.
GetText ==
    /\ run = "ok"
    /\ recs # << >>
    /\ op.name \in {"init", "new_uri", "new_raw_uri", "new_text"}
    /\ \E fail \in FailSets(2) :
       \E r \in {ndef_record_get_text(Machine(heap, fail), recs[1])} :
           /\ fail \subseteq 1..r.m.n
           /\ heap' = r.m.heap
           /\ op' = [name |-> "get_text", from |-> op.name,
                     given |-> IF op.name = "new_text" THEN op.given
                               ELSE <<NoBytes, NoBytes>>,
                     lang |-> r.lang, text |-> r.text, text_len |-> r.text_len,
                     fail |-> fail, ev |-> r.m.ev, abort |-> FALSE]
           /\ Outcome([m |-> r.m, abort |-> FALSE])
    /\ UNCHANGED <<ctxs, recs, input>>

\* No call on a smart poster makes more allocation requests than this.
MaxRequests == 16

\* ndef_record_new_smartposter of a smart poster that has no message of
\* its own (ndef = NULL), with the uri if has_uri and the language and text
\* if has_text; the caller keeps the record and what it gave.
NewSmartposter(has_uri, uri, has_text, lang, text) ==
    /\ run = "ok"
    /\ recs = << >>
    /\ has_uri \/ uri = NoBytes
    /\ has_text \/ (lang = NoBytes /\ text = NoBytes)
    /\ \E fail \in FailSets(MaxRequests) :
       \E r \in {ndef_record_new_smartposter(
                     Machine(heap, fail),
                     [ndef |-> NULL, has_uri |-> has_uri, uri |-> uri,
                      has_text |-> has_text, lang |-> lang, text |-> text])} :
           /\ fail \subseteq 1..r.m.n
           /\ heap' = r.m.heap
           /\ recs' = <<r.out>>
           /\ op' = [name |-> "new_smartposter",
                     has_uri |-> has_uri, has_text |-> has_text,
                     given |-> <<lang, text>>,
                     fail |-> fail, ev |-> r.m.ev, abort |-> r.abort]
           /\ Outcome(r)
    /\ input' = uri
    /\ UNCHANGED ctxs

\* ndef_record_get_smartposter of the record the caller holds; the caller
\* keeps the message it is handed.  op.from is the call that made the
\* record, op.made what ndef_record_new_smartposter was given and refused.
GetSmartposter(ub) ==
    /\ run = "ok"
    /\ recs # << >>
    /\ op.name \in {"init", "new_uri", "new_raw_uri", "new_text", "new_smartposter"}
    /\ \E fail \in FailSets(MaxRequests) :
       \E r \in {ndef_record_get_smartposter(Machine(heap, fail), recs[1], ub)} :
           /\ fail \subseteq 1..r.m.n
           /\ ub.ob = 0 \/ "oob_read" \in r.m.ev
           /\ heap' = r.m.heap
           /\ ctxs' = IF r.ndef = NULL THEN ctxs ELSE Append(ctxs, r.ndef)
           /\ op' = [name |-> "get_smartposter", from |-> op.name,
                     made |-> IF op.name = "new_smartposter"
                              THEN [has_uri |-> op.has_uri,
                                    has_text |-> op.has_text,
                                    given |-> op.given, fail |-> op.fail]
                              ELSE [has_uri |-> FALSE, has_text |-> FALSE,
                                    given |-> <<NoBytes, NoBytes>>, fail |-> {}],
                     ub |-> ub, ndef |-> r.ndef, uri |-> r.uri,
                     lang |-> r.lang, text |-> r.text,
                     fail |-> fail, ev |-> r.m.ev, abort |-> r.abort]
           /\ Outcome(r)
    /\ UNCHANGED <<recs, input>>

RtdNext ==
    \/ \E uri \in RtdStrings.uris : \E abbreviate \in BOOLEAN : NewUri(uri, abbreviate)
    \/ GetUri
    \/ \E lang \in RtdStrings.langs : \E text \in RtdStrings.texts :
          NewText(lang, text)
    \/ GetText
    \/ \E has_uri, has_text \in BOOLEAN :
       \E uri \in {NoBytes, RtdStrings.poster} :
       \E lang \in {NoBytes, BytesOf(<<101, 110>>)} : \E text \in RtdStrings.texts :
          NewSmartposter(has_uri, uri, has_text, lang, text)
    \/ \E ub \in Builds : GetSmartposter(ub)

SpecRtd == RtdInit /\ [][RtdNext]_vars

(* ------------------------------ properties --------------------------- *)

\* The whole length of the record a buffer starts with, as its header
\* declares it: 3 bytes of header (6 for a long record, one more with an
\* id length), then the type, the payload and the id.
HeaderLen(data) ==
    (IF Bit(BAt(data, size_t(0)), NDEF_FLAG_SR) THEN 3 ELSE 6)
        + B2N(Bit(BAt(data, size_t(0)), NDEF_FLAG_IL))

DeclaredLen(data) ==
    LET sr == Bit(BAt(data, size_t(0)), NDEF_FLAG_SR)
        il == Bit(BAt(data, size_t(0)), NDEF_FLAG_IL)
        tl == size_t(BAt(data, size_t(1)))
        pl == IF sr THEN size_t(BAt(data, size_t(2)))
              ELSE SizeOfBytes(BAt(data, size_t(2)), BAt(data, size_t(3)),
                               BAt(data, size_t(4)), BAt(data, size_t(5)))
        il_ == IF il THEN size_t(BAt(data, size_t(HeaderLen(data) - 1)))
               ELSE size_t(0)
    IN  SizeAdd(SizeAdd(size_t(HeaderLen(data)), tl), SizeAdd(pl, il_))

\* The buffer is shorter than 3 bytes, or ends inside the header of its
\* first record, or inside the type, payload or id the header declares.
Truncated(data) ==
    \/ SizeLt(BLen(data), size_t(3))
    \/ SizeLt(BLen(data), size_t(HeaderLen(data)))
    \/ SizeLt(BLen(data), DeclaredLen(data))

\* The raw records of message h by value, in order.
RawValues(hp, h) ==
    [k \in 1..hp[h].data[1].raw_records_len |->
        RecValue(hp, Abstract(RawRecord(hp, h, k - 1)))]

\* old with the sequence put inserted before its element k + 1.
Inserted(old, k, put) ==
    [j \in 1..(Len(old) + Len(put)) |->
        IF j <= k THEN old[j]
        ELSE IF j <= k + Len(put) THEN put[j - k]
        ELSE old[j - Len(put)]]

\* old without its len elements from element index + 1 on.
Removed(old, index, len) ==
    LET gone == IF index >= Len(old) THEN 0
                ELSE IF index + len > Len(old) THEN Len(old) - index ELSE len
    IN  [j \in 1..(Len(old) - gone) |-> IF j <= index THEN old[j] ELSE old[j + gone]]

\* Abstract record k of message h is linked to no raw record.
Unlinked(hp, h, k) ==
    AbsRecord(hp, h, k).raw_index = 0 /\ AbsRecord(hp, h, k).raw_len = 0

\* C1: decoding the whole bytes ndef_encode produced for a message, no
\* allocation being refused, returns a message with the same abstract
\* records by value (TNF, type, payload, id), in the same order.
C1_RoundTrip ==
    (op.name = "decode" /\ op.whole /\ op.fail = {})
        => /\ run # "aborted"
           /\ op.ret # NULL
           /\ AbsValues(heap, op.ret) = AbsValues(heap, ctxs[1])

\* C2: ndef_raw_record_decode of a buffer shorter than 3 bytes, or ending
\* inside its record's header or declared type, payload or id, returns
\* false, does not write *out and leaves *len at the buffer's length (no
\* byte consumed).
C2_TruncatedFails ==
    (op.name = "raw_decode" /\ Truncated(input))
        => /\ run # "aborted"
           /\ ~op.ok
           /\ ~op.written
           /\ op.len = BLen(input)

\* C3: when a record of the input fails to decode, ndef_decode still
\* returns a message, and the message's abstract records are exactly the
\* records decoded before the failure, in input order.
C3_PartialKeepsDecoded ==
    (op.name = "decode" /\ op.partial)
        => /\ run # "aborted"
           /\ op.ret # NULL
           /\ AbsValues(heap, op.ret) = RawValues(heap, op.ret)

\* C4: when ndef_decode returns a message, no allocation having been
\* refused, the caller's *len is the number of input bytes decoded.
C4_LenIsBytesDecoded ==
    (op.name = "decode" /\ op.fail = {} /\ ~op.abort /\ op.ret # NULL)
        => op.len = op.pos

\* C5: a successful insert of count records at index into a usable store
\* holding old[0..n) leaves it holding old[0..k) ++ records ++ old[k..n),
\* k = min(index, n).
C5_InsertPlaces ==
    (op.name = "insert" /\ op.valid /\ ~op.abort /\ op.ok)
        => AbsValues(heap, op.h)
             = Inserted(op.old,
                        IF SizeLt(size_t(Len(op.old)), op.index)
                        THEN Len(op.old) ELSE SizeNat(op.index),
                        op.put)

\* C6: a copy-mode insert into a usable store in which the clone of a
\* record fails returns false with the store's records as before, nothing
\* freed twice, every block allocated during the call freed (the grown
\* array apart), and every block that was live before still live (the
\* array a growth replaces apart).
C6_FailedCopyRestores ==
    (op.name = "insert" /\ op.valid /\ ~op.is_move /\ op.fail # {}
        /\ ~op.grow_failed)
        => /\ ~op.abort
           /\ op.ok = FALSE
           /\ op.ev = {}
           /\ AbsValues(heap, op.h) = op.old
           /\ \A b \in (op.blocks + 1)..Len(heap) :
                  b = heap[op.h].data[1].abs_records \/ heap[b].st = "freed"
           /\ \A b \in op.live : b = op.arr \/ heap[b].st = "live"

\* C7: an insert, copy or move, into a usable store whose growth realloc
\* refuses returns false and changes nothing: the store's length, capacity,
\* array and records, every block of the heap and the records the caller
\* holds are as before the call, and no memory error is committed.
C7_GrowthFailureChangesNothing ==
    [][(op'.name = "insert" /\ op'.grow_failed /\ op'.valid)
          => /\ ~op'.abort
             /\ op'.ok = FALSE
             /\ op'.ev = {}
             /\ heap' = heap
             /\ recs' = recs
             /\ ctxs' = ctxs
             /\ run' = "ok"]_vars

\* C7 happens: a move-mode insert into a store that holds a record has its
\* growth refused.
C7_Witness ==
    /\ op.name = "insert" /\ op.grow_failed /\ op.valid /\ op.is_move
    /\ op.count >= 1 /\ Len(op.old) >= 1
    /\ ~op.abort /\ op.ok = FALSE
    /\ \A i \in 1..Len(recs) : Buffers(recs[i]) \subseteq Live(heap)

\* C8: ndef_splice_n(ctx, index, len) leaves the store holding its former
\* records without the len records from index on, in their order.
C8_SpliceRemoves ==
    (op.name = "splice" /\ ~op.abort)
        => AbsValues(heap, op.h)
             = Removed(op.old, SizeNat(op.index), SizeNat(op.len))

\* C9: the message ndef_clone returns, no allocation having been refused,
\* has the abstract records of the original by value and shares with it no
\* type, payload or id buffer and no record array.
C9_CloneIsIndependent ==
    (op.name = "clone" /\ op.fail = {} /\ ~op.abort /\ op.ret # NULL)
        => /\ AbsValues(heap, op.ret) = AbsValues(heap, op.h)
           /\ AbsBuffers(heap, op.ret) \cap AbsBuffers(heap, op.h) = {}
           /\ heap[op.ret].data[1].abs_records = NULL
                \/ heap[op.ret].data[1].abs_records # heap[op.h].data[1].abs_records

\* C10: after ndef_clear or ndef_destroy both lists of the message are
\* empty and every block it owned before the call (both arrays and every
\* type, payload and id buffer of its records) is freed.
C10_ClearReleasesAll ==
    (op.name \in {"clear", "destroy"} /\ ~op.abort)
        => /\ heap[op.h].data[1].abs_records_len = 0
           /\ heap[op.h].data[1].raw_records_len = 0
           /\ \A b \in op.owned : heap[b].st = "freed"

\* C11: ndef_raw_clear commits no memory error, returns, and leaves the raw
\* list empty, every abstract record with raw_index 0 and raw_len 0, and
\* the abstract records as many as before and equal by value (TNF, type,
\* payload, id) to what they were.
C11_RawClearKeepsAbstract ==
    (op.name = "raw_clear")
        => /\ op.ev = {} /\ ~op.abort
           /\ heap[op.h].data[1].raw_records_len = 0
           /\ \A k \in 0..(heap[op.h].data[1].abs_records_len - 1) :
                  Unlinked(heap, op.h, k)
           /\ AbsValues(heap, op.h) = op.old

\* C12: when a realloc of the output buffer is refused during ndef_encode
\* (an append of ndef_raw_record_encode fails), ndef_encode returns false,
\* hands out no buffer and no length, and commits no memory error.
C12_AppendFailureFailsEncode ==
    (op.name = "encode" /\ op.fail # {})
        => /\ ~op.abort /\ op.ev = {}
           /\ op.ok = FALSE
           /\ ~op.written
           /\ input = NoBytes

\* The flags bytes of the records a buffer holds, one after the other, each
\* record as long as its header declares.
RECURSIVE WireFlags(_)
WireFlags(data) ==
    IF data = NoBytes THEN << >>
    ELSE <<BAt(data, size_t(0))>> \o WireFlags(BDrop(data, DeclaredLen(data)))

\* C13: in the bytes ndef_encode produces, no allocation refused, for a
\* message of n >= 1 records (payload_len at most 2^32-1 each), there are n
\* records; record i has begin set iff i = 0 and end set iff i = n-1,
\* chunked clear, short-record set iff payload_len < 256 and
\* id-length-present set iff id_len # 0.
C13_EncodedFlags ==
    (op.name = "encode" /\ op.ok /\ op.fail = {}
        /\ heap[ctxs[1]].data[1].abs_records_len >= 1)
        => /\ Len(WireFlags(input)) = heap[ctxs[1]].data[1].abs_records_len
           /\ \A i \in 1..Len(WireFlags(input)) :
                  /\ Bit(WireFlags(input)[i], NDEF_FLAG_MB) = (i = 1)
                  /\ Bit(WireFlags(input)[i], NDEF_FLAG_ME)
                        = (i = Len(WireFlags(input)))
                  /\ ~Bit(WireFlags(input)[i], NDEF_FLAG_CF)
                  /\ Bit(WireFlags(input)[i], NDEF_FLAG_SR)
                        = SizeLt(AbsRecord(heap, ctxs[1], i - 1).payload_len,
                                 size_t(256))
                  /\ Bit(WireFlags(input)[i], NDEF_FLAG_IL)
                        = (AbsRecord(heap, ctxs[1], i - 1).id_len # 0)

\* C13 happens: a message of two records is encoded, the first long with
\* an id, the second short without one.
C13_Witness ==
    /\ op.name = "encode" /\ op.ok /\ op.fail = {}
    /\ heap[ctxs[1]].data[1].abs_records_len = 2
    /\ Len(WireFlags(input)) = 2
    /\ ~Bit(WireFlags(input)[1], NDEF_FLAG_SR)
    /\ Bit(WireFlags(input)[1], NDEF_FLAG_IL)
    /\ Bit(WireFlags(input)[2], NDEF_FLAG_SR)
    /\ ~Bit(WireFlags(input)[2], NDEF_FLAG_IL)

\* C14: when ndef_raw_record_decode reads the header of a record that is
\* not short, the payload_len it sets is the four length bytes read as an
\* unsigned big-endian 32-bit value, at most 2^32-1, whatever the bytes.
C14_LongLenIsU32 ==
    (op.name = "raw_decode" /\ op.long)
        => /\ op.payload_len = SizeOfBytes(Rd(input, 2, op.ub), Rd(input, 3, op.ub),
                                           Rd(input, 4, op.ub), Rd(input, 5, op.ub))
           /\ op.payload_len[1] = 0 /\ op.payload_len[2] = 0

\* C15: in the message ndef_decode returns there are as many abstract
\* records as raw records; abstract record i has raw_index i and raw_len 1,
\* raw record i has abs_index i, and the two have the same TNF, type,
\* payload and id.
C15_DecodePromotesAll ==
    (op.name = "decode" /\ op.ret # NULL /\ ~op.abort)
        => /\ heap[op.ret].data[1].abs_records_len
                = heap[op.ret].data[1].raw_records_len
           /\ \A i \in 0..(heap[op.ret].data[1].raw_records_len - 1) :
                  /\ AbsRecord(heap, op.ret, i).raw_index = i
                  /\ AbsRecord(heap, op.ret, i).raw_len = 1
                  /\ RawRecord(heap, op.ret, i).abs_index = i
           /\ AbsValues(heap, op.ret) = RawValues(heap, op.ret)

\* The indices of the non-empty table entries the string u starts with.
Prefixes(u) ==
    {i \in 1..(Len(ndef_uri_abbrev_table) - 1) :
        BTake(u, BLen(ndef_uri_abbrev_table[i + 1])) = ndef_uri_abbrev_table[i + 1]}

\* The payload of the record the caller holds.
Payload == BTake(Deref(heap, recs[1].payload), recs[1].payload_len)

\* C16: the record ndef_record_new_uri returns, no allocation refused, has
\* as payload byte 0 the index of the longest non-empty table entry the
\* uri starts with, then the uri without that prefix; when it starts with
\* no entry, byte 0 is 0 and the whole uri follows.
C16_LongestPrefix ==
    (op.name = "new_uri" /\ op.fail = {})
        => /\ recs[1].payload # NULL
           /\ IF Prefixes(input) = {}
              THEN Payload = BCat(BRun(0, size_t(1)), input)
              ELSE \E i \in Prefixes(input) :
                      /\ \A j \in Prefixes(input) :
                             SizeLe(BLen(ndef_uri_abbrev_table[j + 1]),
                                    BLen(ndef_uri_abbrev_table[i + 1]))
                      /\ Payload = BCat(BRun(i, size_t(1)),
                                        BDrop(input, BLen(ndef_uri_abbrev_table[i + 1])))

\* C16 happens: "http://www.x", which starts with entry 3 ("http://") and
\* with entry 1 ("http://www."), is stored as 01 'x'.
C16_Witness ==
    /\ op.name = "new_uri" /\ op.fail = {}
    /\ Prefixes(input) = {1, 3}
    /\ Payload = BytesOf(<<1, 120>>)

\* C17: the record ndef_record_new_uri(u) or ndef_record_new_raw_uri(u)
\* returned satisfies ndef_record_is_uri, and ndef_record_get_uri of it,
\* no allocation refused, returns exactly u, for every string u.
C17_UriRoundTrip ==
    (op.name = "get_uri" /\ op.from \in {"new_uri", "new_raw_uri"}
        /\ recs[1].payload # NULL /\ op.fail = {})
        => /\ ndef_record_is_uri(heap, recs[1])
           /\ op.ret # NULL
           /\ Deref(heap, op.ret) = BCat(input, BRun(0, size_t(1)))

\* The rest of the payload of the record the caller holds, after byte 0.
Rest == BDrop(Payload, size_t(1))

GivenInDomain ==
    /\ SizeLe(size_t(2), BLen(op.given[1]))
    /\ SizeLe(BLen(op.given[1]), size_t(63))
    /\ op.given[2] # NoBytes

\* C19: for a language code of 2 to 63 characters and a text that is not
\* empty, ndef_record_new_text, no allocation refused, returns a well-known
\* record of type "T" whose payload is the language length, the language
\* and the text, which satisfies ndef_record_is_text; and
\* ndef_record_get_text of it returns that language and that text.
C19_TextRoundTrip ==
    /\ (op.name = "new_text" /\ op.fail = {} /\ GivenInDomain)
          => /\ recs[1].tnf = NDEF_TNF_WELL_KNOWN
             /\ recs[1].type_len = 1
             /\ Deref(heap, recs[1].type) = BytesOf(<<84>>)
             /\ Payload = BCat(BCat(BRun(SizeNat(BLen(op.given[1])), size_t(1)),
                                    op.given[1]), op.given[2])
             /\ ndef_record_is_text(heap, recs[1])
    /\ (op.name = "get_text" /\ op.from = "new_text" /\ op.fail = {}
            /\ GivenInDomain /\ recs[1].payload # NULL)
          => /\ op.lang # NULL /\ op.text # NULL
             /\ Deref(heap, op.lang) = BCat(op.given[1], BRun(0, size_t(1)))
             /\ Deref(heap, op.text) = BCat(op.given[2], BRun(0, size_t(1)))

\* C20: for a record satisfying ndef_record_is_text, with L = byte 0 &
\* 0x3F, ndef_record_get_text computes text_len = payload_len - L - 1
\* without wrapping around, reads no payload offset at or above
\* payload_len (no memory error at all), and when it returns strings they
\* are lang = payload[1 .. 1+L) and text = payload[1+L .. payload_len).
C20_TextDecodeInBounds ==
    (op.name = "get_text" /\ ndef_record_is_text(heap, recs[1]))
        => /\ SizeLe(op.text_len, recs[1].payload_len)
           /\ SizeAdd(op.text_len, size_t((BAt(Payload, size_t(0)) % 64) + 1))
                = recs[1].payload_len
           /\ op.ev = {}
           /\ op.lang # NULL
                => /\ Deref(heap, op.lang)
                        = BCat(BSlice(Payload, size_t(1),
                                      size_t(BAt(Payload, size_t(0)) % 64)),
                               BRun(0, size_t(1)))
                   /\ Deref(heap, op.text)
                        = BCat(BDrop(Payload, size_t((BAt(Payload, size_t(0)) % 64) + 1)),
                               BRun(0, size_t(1)))

\* C21: the record ndef_record_new_smartposter returns for a smart poster
\* with the uri "https://x", no message of its own and no text, no
\* allocation being refused, satisfies ndef_record_is_smartposter; and
\* ndef_record_get_smartposter of that record, no allocation being refused,
\* returns the string "https://x" as the uri and no text (lang and text
\* NULL).
C21_SmartposterRoundTrip ==
    /\ (/\ op.name = "new_smartposter" /\ op.fail = {}
        /\ op.has_uri /\ ~op.has_text /\ input = RtdStrings.poster)
           => ndef_record_is_smartposter(heap, recs[1])
    /\ (/\ op.name = "get_smartposter" /\ op.from = "new_smartposter"
        /\ op.fail = {} /\ op.made.fail = {}
        /\ op.made.has_uri /\ ~op.made.has_text /\ input = RtdStrings.poster)
           => /\ op.uri # NULL
              /\ Deref(heap, op.uri) = BCat(RtdStrings.poster, BRun(0, size_t(1)))
              /\ op.lang = NULL
              /\ op.text = NULL

\* C22: every operation that takes a message handle fails fast on a
\* destroyed handle (magic # NDEF_MAGIC): the call aborts, and the heap is
\* as it was before the call (no field read into a result, none modified,
\* nothing freed).
C22_FailFast ==
    [][(/\ op'.name \in {"insert", "splice", "raw_clear", "clear", "destroy", "clone"}
        /\ ~MagicOk(Machine(heap, {}), op'.h))
           => (op'.abort /\ heap' = heap /\ run' = "aborted")]_vars

\* C23: for a URI record whose payload byte 0 is an index of the table,
\* ndef_record_get_uri, no allocation refused, returns the table entry
\* followed by all payload_len - 1 remaining payload bytes, whatever their
\* values (a zero byte among them too), and reads no payload offset at or
\* past payload_len.
C23_WholeRest ==
    [][(/\ op'.name = "get_uri" /\ op'.fail = {}
        /\ ndef_record_is_uri(heap, recs[1])
        /\ BAt(Payload, size_t(0)) < NDEF_URI_ABBREVMAX)
           => /\ op'.ret # NULL
              /\ "oob_read" \notin op'.ev
              /\ Deref(heap', op'.ret)
                   = BCat(BCat(ndef_uri_abbrev_table[BAt(Payload, size_t(0)) + 1],
                               Rest),
                          BRun(0, size_t(1)))]_vars

\* C24: ndef_raw_record_decode reads no byte of its input at an offset at
\* or past the length it is given, for every length and every flags byte:
\* the header bytes it reads lie inside the buffer, or it fails before
\* reading them.
C24_DecodeReadsInside ==
    (op.name = "raw_decode") => "oob_read" \notin op.ev

\* C25: over any sequence of inserts and appends, ndef_raw_clear,
\* ndef_clear and ndef_destroy on the one message of a run, each call made
\* while the message is valid, no block is freed twice and no freed block
\* is passed to free or realloc.
C25_NoUseAfterFree ==
    [][(/\ op'.name \in {"insert", "raw_clear", "clear", "destroy"}
        /\ Len(ctxs) = 1
        /\ MagicOk(Machine(heap, {}), op'.h))
           => op'.ev \cap {"double_free", "realloc_freed"} = {}]_vars

\* C26: an insert into a message whose array is absent or live writes no
\* slot at or past the capacity the array has after growth, neither while
\* shifting the tail nor while filling the gap; and in every state every
\* valid message has abs_records_len <= abs_records_cap.
C26_WritesBelowCapacity ==
    /\ (op.name = "insert" /\ op.valid) => "oob_write" \notin op.ev
    /\ \A h \in Handles :
           MagicOk(Machine(heap, {}), h)
               => heap[h].data[1].abs_records_len <= heap[h].data[1].abs_records_cap

\* C27: after a decode, after an insert into the decoded message, no
\* allocation having been refused, and after an ndef_raw_clear of it, no
\* memory error committed, the links of the decoded message are
\* consistent: when its raw list is not empty every raw record j has
\* abs_index below the abstract length and the abstract record there has
\* raw_index j and raw_len >= 1; and every abstract record with
\* raw_len > 0 has raw_index + raw_len <= the raw length.
C27_LinksConsistent ==
    (/\ op.name \in {"decode", "insert", "raw_clear"}
     /\ Len(ctxs) = 2 /\ run = "ok"
     /\ IF op.name = "raw_clear" THEN op.h = ctxs[2] ELSE op.fail = {})
        => LET c == heap[ctxs[2]].data[1]
           IN  /\ \A j \in 0..(c.raw_records_len - 1) :
                      /\ RawRecord(heap, ctxs[2], j).abs_index < c.abs_records_len
                      /\ AbsRecord(heap, ctxs[2],
                                   RawRecord(heap, ctxs[2], j).abs_index).raw_index = j
                      /\ AbsRecord(heap, ctxs[2],
                                   RawRecord(heap, ctxs[2], j).abs_index).raw_len >= 1
               /\ \A k \in 0..(c.abs_records_len - 1) :
                      AbsRecord(heap, ctxs[2], k).raw_len > 0
                          => AbsRecord(heap, ctxs[2], k).raw_index
                                + AbsRecord(heap, ctxs[2], k).raw_len
                               <= c.raw_records_len

====
